---- MODULE Spec2Model ----
(***************************************************************************)
(* Fixed-step LMDE solvers of qiskit_dynamics/solvers/fixed_step_solvers.py *)
(*                                                                         *)
(* Numbers.  A time, a time difference or a step size is an exact value    *)
(*     (c + f*eps) / d      with integers c, f and d > 0,                   *)
(* where eps stands for 1e-15, the relative tolerance written in           *)
(* get_fixed_step_sizes.  eps is far below every magnitude of the model,   *)
(* so values are ordered first by c/d and then by f/d.  All arithmetic is  *)
(* exact: floating-point rounding is not modelled.                         *)
(*                                                                         *)
(* Matrices.  A matrix value is a word of factors, leftmost factor first;  *)
(* the matrix product is concatenation, which is associative and not       *)
(* commutative, and the identity matrix is the empty word.                 *)
(***************************************************************************)
EXTENDS Integers, Sequences, FiniteSets, TLC

VARIABLES
    pc,                 \* position in the program
    t_span, t_eval, max_dt, rule, y0,          \* arguments of the solve call
    magnus_order,       \* the magnus_order argument of the expm solvers
    t_list, delta_t_list, n_steps_list, h_list, idx,   \* get_fixed_step_sizes
    ys, y, inner_t, k, step, calls,            \* fixed_step_solver_template
    all_times, all_h, t_list_locations,        \* parallel template: set up
    step_propagators, intermediate_props, ys_par,      \* parallel template
    res_seq, res_par,                          \* the two OdeResult objects
    rhs_log,            \* the evaluations of the generator / right-hand side
    down, up, lvl,      \* the prefix scan run by workers: levels, results, depth
    call_args,          \* the further arguments of the call, by name
    invoked,            \* the calls made to functions outside the module
    result,             \* the value returned by the call
    err                                        \* the error raised, if any

vars == <<pc, t_span, t_eval, max_dt, rule, y0, magnus_order, rhs_log,
          down, up, lvl,
          t_list, delta_t_list, n_steps_list, h_list, idx,
          ys, y, inner_t, k, step, calls,
          all_times, all_h, t_list_locations,
          step_propagators, intermediate_props, ys_par, res_seq, res_par,
          call_args, invoked, result, err>>

gridVars == <<t_list, delta_t_list, n_steps_list, h_list, idx>>
seqVars  == <<ys, y, inner_t, k, step, calls, res_seq>>
parVars  == <<all_times, all_h, t_list_locations,
              step_propagators, intermediate_props, ys_par, res_par>>
argVars  == <<t_span, t_eval, max_dt, rule, y0, magnus_order>>
workerVars == <<down, up, lvl>>
apiVars  == <<call_args, invoked, result>>

----------------------------------------------------------------------------
(* Bounds of the model *)

MaxT == 3            \* t_span endpoints are integers in 0..MaxT
MaxDt == 2           \* max_dt is a whole number in 1..MaxDt, or that of Scenario
MaxFine == 2         \* evaluation points are c + f*eps with f in 0..MaxFine
GridMaxEval == 1     \* length of t_eval in the grid specification
MaxEval == 1         \* length of t_eval in the solver specification
MaxDev == 11         \* norm(adj - operator) is in 0..MaxDev, in units of 1e-11
MaxOps == 2          \* length of the operators list of a HamiltonianModel
MaxExpansionOrder == 2   \* expansion_order is None or in 1..MaxExpansionOrder
MaxOrder == 4        \* magnus_order is an integer in (3 - MaxOrder)..MaxOrder

----------------------------------------------------------------------------
(* Exact numbers (c + f*eps)/d *)

RECURSIVE GCD(_, _)
GCD(a, b) == IF b = 0 THEN a ELSE GCD(b, a % b)

IAbs(n) == IF n < 0 THEN -n ELSE n

Norm(c, f, d) ==
    LET g == GCD(GCD(IAbs(c), IAbs(f)), d)
    IN  [c |-> c \div g, f |-> f \div g, d |-> d \div g]

Num(c, f) == [c |-> c, f |-> f, d |-> 1]

NumAdd(a, b) == Norm(a.c * b.d + b.c * a.d, a.f * b.d + b.f * a.d, a.d * b.d)
NumSub(a, b) == Norm(a.c * b.d - b.c * a.d, a.f * b.d - b.f * a.d, a.d * b.d)
NumNeg(a) == [c |-> -a.c, f |-> -a.f, d |-> a.d]
NumTimesInt(a, n) == Norm(a.c * n, a.f * n, a.d)
NumDivInt(a, n) == Norm(a.c, a.f, a.d * n)
\* the product; the eps*eps term (1e-30) is dropped
NumMul(a, b) == Norm(a.c * b.c, a.c * b.f + a.f * b.c, a.d * b.d)

\* the quotient a / b for b > 0 without an eps part
NumDiv(a, b) == Norm(a.c * b.d, a.f * b.d, a.d * b.c)

NumSign(a) ==
    IF a.c > 0 THEN 1 ELSE IF a.c < 0 THEN -1
    ELSE IF a.f > 0 THEN 1 ELSE IF a.f < 0 THEN -1 ELSE 0

NumAbs(a) == IF NumSign(a) < 0 THEN NumNeg(a) ELSE a
NumLess(a, b) == NumSign(NumSub(a, b)) < 0
NumLeq(a, b) == NumSign(NumSub(a, b)) <= 0

\* the relative tolerance 1e-15 of get_fixed_step_sizes, in units of eps
TolEps == 1

----------------------------------------------------------------------------
(* merge_t_args and trim_t_results of solvers/solver_utils.py *)

NoEval == [none |-> TRUE, pts |-> <<>>]
Eval(pts) == [none |-> FALSE, pts |-> pts]

NumMin(a, b) == IF NumLess(b, a) THEN b ELSE a
NumMax(a, b) == IF NumLess(a, b) THEN b ELSE a

\* every point of t_eval lies in [min(t0, tf), max(t0, tf)]
InSpan(span, pts) ==
    \A i \in 1..Len(pts) :
        /\ NumLeq(NumMin(span[1], span[2]), pts[i])
        /\ NumLeq(pts[i], NumMax(span[1], span[2]))

\* t_eval is sorted in the direction of integration
Sorted(span, pts) ==
    LET dir == NumSign(NumSub(span[2], span[1]))
    IN  \A i \in 1..(Len(pts) - 1) :
            dir * NumSign(NumSub(pts[i + 1], pts[i])) >= 0

RECURSIVE Dedupe(_)
Dedupe(s) ==
    IF Len(s) <= 1 THEN s
    ELSE IF s[1] = s[2] THEN Dedupe(Tail(s))
    ELSE <<s[1]>> \o Dedupe(Tail(s))

ValidTEval(span, ev) == ev.none \/ (InSpan(span, ev.pts) /\ Sorted(span, ev.pts))

\* variant: repeated breakpoints kept
merge_t_args_keep_repeats(span, ev) ==
    IF ev.none THEN span ELSE <<span[1]>> \o ev.pts \o <<span[2]>>

merge_t_args(span, ev) ==
    IF ev.none THEN span ELSE Dedupe(<<span[1]>> \o ev.pts \o <<span[2]>>)

----------------------------------------------------------------------------
(* get_fixed_step_sizes *)

\* variant: every difference taken from the first time
diff_from_start(ts) == [i \in 1..(Len(ts) - 1) |-> NumSub(ts[i + 1], ts[1])]

\* variant: the lengths of the intervals in place of the signed differences
diff_unsigned(ts) == [i \in 1..(Len(ts) - 1) |-> NumAbs(NumSub(ts[i + 1], ts[i]))]

\* np.diff(t_list)
diff(ts) == [i \in 1..(Len(ts) - 1) |-> NumSub(ts[i + 1], ts[i])]

\* np.abs(delta_t / max_dt).astype(int): the quotient truncated toward zero
TruncSteps(delta_t, mdt) ==
    LET a == NumAbs(NumDiv(delta_t, mdt))
        q == a.c \div a.d
    IN  IF a.c % a.d = 0 /\ a.f < 0 THEN q - 1 ELSE q

\* variant: the absolute value of delta_t forgotten
ExceedsTol_no_abs(delta_t, n_steps, mdt) ==
    LET a == NumDiv(NumDivInt(delta_t, n_steps), mdt)
    IN  a.c > a.d \/ (a.c = a.d /\ a.f > a.d * TolEps)

\* np.abs(delta_t / n_steps) / max_dt > 1 + 1e-15
ExceedsTol(delta_t, n_steps, mdt) ==
    LET a == NumDiv(NumAbs(NumDivInt(delta_t, n_steps)), mdt)
    IN  a.c > a.d \/ (a.c = a.d /\ a.f > a.d * TolEps)

\* variant: the truncated count is never incremented
CorrectSteps_no_increment(delta_t, n_steps, mdt) == IF n_steps = 0 THEN 1 ELSE n_steps

\* one iteration of the loop "correct potential rounding errors"
CorrectSteps(delta_t, n_steps, mdt) ==
    IF n_steps = 0 THEN 1
    ELSE IF ExceedsTol(delta_t, n_steps, mdt) THEN n_steps + 1
    ELSE n_steps

\* variant: the step size computed from |delta_t|
StepSize_unsigned(delta_t, n_steps) == NumDivInt(NumAbs(delta_t), n_steps)

\* h_list = delta_t_list / n_steps_list
StepSize(delta_t, n_steps) == NumDivInt(delta_t, n_steps)

\* variant: every interval counted from the length of the first one
n_steps_initial_first(deltas, mdt) == [i \in DOMAIN deltas |-> TruncSteps(deltas[1], mdt)]

\* n_steps_list = np.abs(delta_t_list / max_dt).astype(int)
n_steps_initial(deltas, mdt) == [i \in DOMAIN deltas |-> TruncSteps(deltas[i], mdt)]

\* the function as a whole: (t_list, h_list, n_steps_list)
get_fixed_step_sizes(span, ev, mdt) ==
    LET tl == merge_t_args(span, ev)
        dl == diff(tl)
        n0 == n_steps_initial(dl, mdt)
        n1 == [i \in DOMAIN dl |-> CorrectSteps(dl[i], n0[i], mdt)]
    IN  [t_list |-> tl,
         h_list |-> [i \in DOMAIN dl |-> StepSize(dl[i], n1[i])],
         n_steps_list |-> n1]

\* variant: on a malformed t_eval the grid of t_span alone is built
GridMerge_fallback ==
    /\ pc = "grid"
    /\ t_list' = IF ValidTEval(t_span, t_eval) THEN merge_t_args(t_span, t_eval) ELSE t_span
    /\ delta_t_list' = diff(t_list')
    /\ n_steps_list' = n_steps_initial(delta_t_list', max_dt)
    /\ idx' = 1
    /\ pc' = "correct"
    /\ UNCHANGED <<argVars, apiVars, workerVars, rhs_log, h_list, seqVars, parVars, err>>

GridMerge ==
    /\ pc = "grid"
    /\ IF ValidTEval(t_span, t_eval)
       THEN /\ t_list' = merge_t_args(t_span, t_eval)
            /\ delta_t_list' = diff(t_list')
            /\ n_steps_list' = n_steps_initial(delta_t_list', max_dt)
            /\ idx' = 1
            /\ pc' = "correct"
            /\ err' = err
       ELSE /\ pc' = "error"
            /\ err' = "InvalidGridError"
            /\ UNCHANGED <<t_list, delta_t_list, n_steps_list, idx>>
    /\ UNCHANGED <<argVars, apiVars, workerVars, rhs_log, h_list, seqVars, parVars>>

GridCorrect ==
    /\ pc = "correct"
    /\ idx <= Len(delta_t_list)
    /\ n_steps_list' = [n_steps_list EXCEPT
                          ![idx] = CorrectSteps(delta_t_list[idx], @, max_dt)]
    /\ idx' = idx + 1
    /\ UNCHANGED <<pc, argVars, apiVars, workerVars, rhs_log, t_list, delta_t_list, h_list, seqVars, parVars, err>>

GridStepSizes ==
    /\ pc = "correct"
    /\ idx > Len(delta_t_list)
    /\ h_list' = [i \in DOMAIN delta_t_list |->
                      StepSize(delta_t_list[i], n_steps_list[i])]
    /\ pc' = "grid_done"
    /\ UNCHANGED <<argVars, apiVars, workerVars, rhs_log, t_list, delta_t_list, n_steps_list, idx,
                   seqVars, parVars, err>>

----------------------------------------------------------------------------
(* Matrix values.  The generator is n x n with n = GenDim.  A matrix value is *)
(* a word of factors, leftmost first: a factor is the initial value y0, the   *)
(* exponential of one Magnus step, or the polynomial of one RK4 step, a sum   *)
(* of words of generator samples G(tau) with exact coefficients.              *)

GenDim == 2

matmul(A, B) == A \o B

G(tau) == [sym |-> "G", at |-> tau]
\* the n x n matrix of ones: a 1 x 1 identity broadcast against an n x n matrix
OnesSym == [sym |-> "ones", at |-> Num(0, 0)]

Mono(w, q) == [w |-> w, q |-> q]
POne == {Mono(<<>>, Num(1, 0))}
POnes == {Mono(<<OnesSym>>, Num(1, 0))}

Coef(P, w) ==
    IF \E m \in P : m.w = w THEN (CHOOSE m \in P : m.w = w).q ELSE Num(0, 0)

PAdd(A, B) ==
    LET S == {Mono(x, NumAdd(Coef(A, x), Coef(B, x))) : x \in {m.w : m \in A \cup B}}
    IN  {m \in S : m.q # Num(0, 0)}

PScale(s, A) ==
    LET S == {Mono(m.w, NumMul(s, m.q)) : m \in A}
    IN  {m \in S : m.q # Num(0, 0)}

\* generator(tau) @ A
GenMul(tau, A) == {Mono(<<G(tau)>> \o m.w, m.q) : m \in A}

Y0Val(v) == IF v.eye THEN <<>> ELSE <<[kind |-> "y0", shape |-> v.shape]>>

----------------------------------------------------------------------------
(* Step rules *)

div6 == [c |-> 1, f |-> 0, d |-> 6]

\* variant: the four slopes added with equal weights
RK4_take_step_poly_unweighted(t, h) ==
    LET h2 == NumDivInt(h, 2)
        t_plus_h2 == NumAdd(t, h2)
        y_in == POne
        k1 == GenMul(t, y_in)
        k2 == GenMul(t_plus_h2, PAdd(y_in, PScale(h2, k1)))
        k3 == GenMul(t_plus_h2, PAdd(y_in, PScale(h2, k2)))
        k4 == GenMul(NumAdd(t, h), PAdd(y_in, PScale(h, k3)))
    IN  PAdd(y_in, PScale(NumMul(div6, h), PAdd(PAdd(k1, k2), PAdd(k3, k4))))

\* the body of RK4_solver.take_step for rhs_func(t, y) = generator(t) @ y; the
\* state inside the step is a polynomial applied to the step's input y
RK4_take_step_poly(t, h) ==
    LET h2 == NumDivInt(h, 2)
        t_plus_h2 == NumAdd(t, h2)
        y_in == POne
        k1 == GenMul(t, y_in)
        k2 == GenMul(t_plus_h2, PAdd(y_in, PScale(h2, k1)))
        k3 == GenMul(t_plus_h2, PAdd(y_in, PScale(h2, k2)))
        k4 == GenMul(NumAdd(t, h), PAdd(y_in, PScale(h, k3)))
    IN  PAdd(y_in, PScale(NumMul(div6, h),
             PAdd(PAdd(k1, PScale(Num(2, 0), k2)), PAdd(PScale(Num(2, 0), k3), k4))))

RK4_take_step(t, yv, h) ==
    matmul(<<[kind |-> "poly", p |-> RK4_take_step_poly(t, h)]>>, yv)

\* the calls rhs_func(t, y) of one RK4_solver.take_step, in order; the argument
\* y is given as a polynomial applied to the step's input
RK4_rhs_calls(t, h) ==
    LET h2 == NumDivInt(h, 2)
        t_plus_h2 == NumAdd(t, h2)
        y_in == POne
        k1 == GenMul(t, y_in)
        k2 == GenMul(t_plus_h2, PAdd(y_in, PScale(h2, k1)))
        k3 == GenMul(t_plus_h2, PAdd(y_in, PScale(h2, k2)))
    IN  <<[t |-> t, y |-> y_in],
          [t |-> t_plus_h2, y |-> PAdd(y_in, PScale(h2, k1))],
          [t |-> t_plus_h2, y |-> PAdd(y_in, PScale(h2, k2))],
          [t |-> NumAdd(t, h), y |-> PAdd(y_in, PScale(h, k3))]>>

\* the calls generator(t) of one jax_RK4_parallel_solver.take_step, in order
RK4_parallel_generator_calls(t, h) ==
    <<[t |-> NumAdd(t, NumDivInt(h, 2))], [t |-> t], [t |-> NumAdd(t, h)]>>

\* jax_RK4_parallel_solver: dim = y0.shape[-1]; ident = jnp.eye(dim)
RK4_parallel_dim(v) == v.shape[Len(v.shape)]

\* ident + (an n x n matrix) broadcasts when dim = n or dim = 1
BroadcastOK(dim) == dim = GenDim \/ dim = 1

Eye(dim) == IF dim = GenDim THEN POne ELSE POnes

\* jax_RK4_parallel_solver.take_step
RK4_parallel_take_step(ident, t, h) ==
    LET h2 == NumDivInt(h, 2)
        gh2 == NumAdd(t, h2)
        k1 == GenMul(t, POne)
        k2 == GenMul(gh2, PAdd(ident, PScale(h2, k1)))
        k3 == GenMul(gh2, PAdd(ident, PScale(h2, k2)))
        k4 == GenMul(NumAdd(t, h), PAdd(ident, PScale(h, k3)))
    IN  <<[kind |-> "poly",
           p |-> PAdd(ident, PScale(NumMul(div6, h),
                   PAdd(PAdd(k1, PScale(Num(2, 0), k2)),
                        PAdd(PScale(Num(2, 0), k3), k4))))]>>

----------------------------------------------------------------------------
(* Numbers a + b*sqrt(rad) with exact a and b: the node positions and weights *)
(* of the Magnus rules.  rad is 1 when b = 0; two numbers that meet have the  *)
(* same rad or one of them is rational.                                       *)

Frac(n, d) == Norm(n, 0, d)

Rad(a, b, R) == [a |-> a, b |-> b, rad |-> IF b = Num(0, 0) THEN 1 ELSE R]
Rat(a) == Rad(a, Num(0, 0), 1)
\* np.sqrt(R) * q
Sqrt(R, q) == Rad(Num(0, 0), q, R)

RadOf(x, z) == IF x.rad > z.rad THEN x.rad ELSE z.rad
RadAdd(x, z) == Rad(NumAdd(x.a, z.a), NumAdd(x.b, z.b), RadOf(x, z))
RadNeg(x) == Rad(NumNeg(x.a), NumNeg(x.b), x.rad)
RadSub(x, z) == RadAdd(x, RadNeg(z))
RadMul(x, z) ==
    Rad(NumAdd(NumMul(x.a, z.a), NumTimesInt(NumMul(x.b, z.b), RadOf(x, z))),
        NumAdd(NumMul(x.a, z.b), NumMul(x.b, z.a)),
        RadOf(x, z))

(* A matrix expression in generator samples: a function from words of samples *)
(* to their coefficients, without zero entries.                               *)

MZero == [w \in {} |-> Rat(Num(0, 0))]

MCoef(A, w) == IF w \in DOMAIN A THEN A[w] ELSE Rat(Num(0, 0))

MClean(A) == [w \in {x \in DOMAIN A : A[x] # Rat(Num(0, 0))} |-> A[w]]

\* A + B
MAdd(A, B) ==
    MClean([w \in (DOMAIN A) \cup (DOMAIN B) |-> RadAdd(MCoef(A, w), MCoef(B, w))])

\* s * A for a scalar s
MScale(s, A) == MClean([w \in DOMAIN A |-> RadMul(s, A[w])])

MSub(A, B) == MAdd(A, MScale(Rat(Num(-1, 0)), B))

\* the coefficient of w in A @ B: the sum over the ways to split w
RECURSIVE SplitSum(_, _, _, _)
SplitSum(A, B, w, i) ==
    IF i > Len(w) THEN Rat(Num(0, 0))
    ELSE IF SubSeq(w, 1, i) \in DOMAIN A /\ SubSeq(w, i + 1, Len(w)) \in DOMAIN B
         THEN RadAdd(RadMul(A[SubSeq(w, 1, i)], B[SubSeq(w, i + 1, Len(w))]),
                     SplitSum(A, B, w, i + 1))
         ELSE SplitSum(A, B, w, i + 1)

\* A @ B
MMul(A, B) ==
    MClean([w \in {a \o b : a \in DOMAIN A, b \in DOMAIN B} |-> SplitSum(A, B, w, 0)])

\* generator(tau) as a matrix expression
GenAt(tau) == [w \in {<<G(tau)>>} |-> Rat(Num(1, 0))]

\* variant: the operands of the commutator exchanged
matrix_commutator_swapped(m1, m2) == MSub(MMul(m2, m1), MMul(m1, m2))

\* m1 @ m2 - m2 @ m1
matrix_commutator(m1, m2) == MSub(MMul(m1, m2), MMul(m2, m1))

\* variant: the order-1 rule samples the generator at the start of the step
magnus_nodes_left(order, t0, h) ==
    LET at(c) == RadAdd(Rat(t0), RadMul(c, Rat(h)))
    IN  CASE order = 1 -> <<Rat(t0)>>
          [] order = 2 ->
               <<at(RadSub(Rat(Frac(1, 2)), Sqrt(3, Frac(1, 6)))),
                 at(RadAdd(Rat(Frac(1, 2)), Sqrt(3, Frac(1, 6))))>>
          [] order = 3 ->
               <<at(RadSub(Rat(Frac(1, 2)), Sqrt(15, Frac(1, 10)))),
                 at(Rat(Frac(1, 2))),
                 at(RadAdd(Rat(Frac(1, 2)), Sqrt(15, Frac(1, 10))))>>

\* order is the magnus_order given to get_exponential_take_step
\* the nodes at which propagator(generator, t0, h) samples the generator, in
\* the order of the calls
magnus_nodes(order, t0, h) ==
    LET at(c) == RadAdd(Rat(t0), RadMul(c, Rat(h)))
    IN  CASE order = 1 -> <<RadAdd(Rat(t0), Rat(NumDivInt(h, 2)))>>
          [] order = 2 ->
               LET c1 == RadSub(Rat(Frac(1, 2)), Sqrt(3, Frac(1, 6)))
                   c2 == RadAdd(Rat(Frac(1, 2)), Sqrt(3, Frac(1, 6)))
               IN  <<at(c1), at(c2)>>
          [] order = 3 ->
               LET d1 == RadSub(Rat(Frac(1, 2)), Sqrt(15, Frac(1, 10)))
                   d2 == Rat(Frac(1, 2))
                   d3 == RadAdd(Rat(Frac(1, 2)), Sqrt(15, Frac(1, 10)))
               IN  <<at(d1), at(d2), at(d3)>>

\* variant: the order-3 term a3 formed as g3 - g2 + g1
magnus_terms_a3_slip(order, t0, h) ==
    LET nodes == magnus_nodes(order, t0, h)
        hh == Rat(h)
    IN  CASE order = 1 -> MScale(hh, GenAt(nodes[1]))
          [] order = 2 ->
               LET p2 == Sqrt(3, Frac(1, 12))
                   g1 == GenAt(nodes[1])
                   g2 == GenAt(nodes[2])
               IN  MAdd(MScale(Rat(Frac(1, 2)), MScale(hh, MAdd(g1, g2))),
                        MScale(RadMul(p2, RadMul(hh, hh)), matrix_commutator(g2, g1)))
          [] order = 3 ->
               LET c0 == Sqrt(15, Frac(1, 3))
                   c1 == Rat(Frac(10, 3))
                   g1 == GenAt(nodes[1])
                   g2 == GenAt(nodes[2])
                   g3 == GenAt(nodes[3])
                   a1 == MScale(hh, g2)
                   a2 == MScale(RadMul(c0, hh), MSub(g3, g1))
                   a3 == MScale(RadMul(c1, hh), MAdd(MSub(g3, g2), g1))
                   comm1 == matrix_commutator(a1, a2)
                   comm2 == MScale(Rat(Frac(1, 60)),
                                   matrix_commutator(MAdd(MScale(Rat(Num(2, 0)), a3), comm1), a1))
               IN  MAdd(MAdd(a1, MScale(Rat(Frac(1, 12)), a3)),
                        MScale(Rat(Frac(1, 240)),
                               matrix_commutator(
                                   MAdd(MSub(MScale(Rat(Num(-20, 0)), a1), a3), comm1),
                                   MAdd(a2, comm2))))

\* variant: the order-3 commutator of comm2 taken with a1 first
magnus_terms_comm2_swapped(order, t0, h) ==
    LET nodes == magnus_nodes(order, t0, h)
        hh == Rat(h)
    IN  CASE order = 1 -> MScale(hh, GenAt(nodes[1]))
          [] order = 2 ->
               LET p2 == Sqrt(3, Frac(1, 12))
                   g1 == GenAt(nodes[1])
                   g2 == GenAt(nodes[2])
               IN  MAdd(MScale(Rat(Frac(1, 2)), MScale(hh, MAdd(g1, g2))),
                        MScale(RadMul(p2, RadMul(hh, hh)), matrix_commutator(g2, g1)))
          [] order = 3 ->
               LET c0 == Sqrt(15, Frac(1, 3))
                   c1 == Rat(Frac(10, 3))
                   g1 == GenAt(nodes[1])
                   g2 == GenAt(nodes[2])
                   g3 == GenAt(nodes[3])
                   a1 == MScale(hh, g2)
                   a2 == MScale(RadMul(c0, hh), MSub(g3, g1))
                   a3 == MScale(RadMul(c1, hh),
                                MAdd(MSub(g3, MScale(Rat(Num(2, 0)), g2)), g1))
                   comm1 == matrix_commutator(a1, a2)
                   comm2 == MScale(Rat(Frac(1, 60)),
                                   matrix_commutator(a1, MAdd(MScale(Rat(Num(2, 0)), a3), comm1)))
               IN  MAdd(MAdd(a1, MScale(Rat(Frac(1, 12)), a3)),
                        MScale(Rat(Frac(1, 240)),
                               matrix_commutator(
                                   MAdd(MSub(MScale(Rat(Num(-20, 0)), a1), a3), comm1),
                                   MAdd(a2, comm2))))

\* the argument of expm_func in propagator(generator, t0, h)
magnus_terms(order, t0, h) ==
    LET nodes == magnus_nodes(order, t0, h)
        hh == Rat(h)
    IN  CASE order = 1 -> MScale(hh, GenAt(nodes[1]))
          [] order = 2 ->
               LET p2 == Sqrt(3, Frac(1, 12))
                   g1 == GenAt(nodes[1])
                   g2 == GenAt(nodes[2])
               IN  MAdd(MScale(Rat(Frac(1, 2)), MScale(hh, MAdd(g1, g2))),
                        MScale(RadMul(p2, RadMul(hh, hh)), matrix_commutator(g2, g1)))
          [] order = 3 ->
               LET c0 == Sqrt(15, Frac(1, 3))
                   c1 == Rat(Frac(10, 3))
                   g1 == GenAt(nodes[1])
                   g2 == GenAt(nodes[2])
                   g3 == GenAt(nodes[3])
                   a1 == MScale(hh, g2)
                   a2 == MScale(RadMul(c0, hh), MSub(g3, g1))
                   a3 == MScale(RadMul(c1, hh),
                                MAdd(MSub(g3, MScale(Rat(Num(2, 0)), g2)), g1))
                   comm1 == matrix_commutator(a1, a2)
                   comm2 == MScale(Rat(Frac(1, 60)),
                                   matrix_commutator(MAdd(MScale(Rat(Num(2, 0)), a3), comm1), a1))
               IN  MAdd(MAdd(a1, MScale(Rat(Frac(1, 12)), a3)),
                        MScale(Rat(Frac(1, 240)),
                               matrix_commutator(
                                   MAdd(MSub(MScale(Rat(Num(-20, 0)), a1), a3), comm1),
                                   MAdd(a2, comm2))))

MagnusOrder(r) == CASE r = "magnus1" -> 1 [] r = "magnus2" -> 2 [] r = "magnus3" -> 3

\* get_exponential_take_step: propagator(generator, t0, h) = expm_func(terms),
\* where terms is built from samples of the generator at nodes fixed by
\* (magnus_order, t0, h)
propagator(order, t0, h) ==
    <<[kind |-> "expm", order |-> order, t0 |-> t0, h |-> h]>>

\* get_exponential_take_step: take_step(generator, t0, y, h)
exponential_take_step(order, t0, yv, h) ==
    matmul(propagator(order, t0, h), yv)

\* the calls generator(t) of one propagator(generator, t0, h), in order
magnus_generator_calls(order, t0, h) ==
    LET nodes == magnus_nodes(order, t0, h)
    IN  [i \in DOMAIN nodes |-> [t |-> nodes[i]]]

\* the evaluations of rhs_func made by the take_step of the sequential template
rhs_calls(r, t, h) ==
    IF r = "RK4" THEN RK4_rhs_calls(t, h)
    ELSE magnus_generator_calls(MagnusOrder(r), t, h)

\* the evaluations of the generator made by the take_step of the parallel template
parallel_generator_calls(r, t, h) ==
    IF r = "RK4" THEN RK4_parallel_generator_calls(t, h)
    ELSE magnus_generator_calls(MagnusOrder(r), t, h)

RECURSIVE Flatten(_)
Flatten(ss) == IF ss = <<>> THEN <<>> ELSE Head(ss) \o Flatten(Tail(ss))

\* log entries of the evaluations evals made by call number n of take_step
LogEntries(mode, n, evals) ==
    [i \in DOMAIN evals |-> [mode |-> mode, call |-> n, ev |-> evals[i]]]

\* the take_step handed to fixed_step_solver_template by RK4_solver and
\* scipy_expm_solver
take_step(r, t, yv, h) ==
    IF r = "RK4" THEN RK4_take_step(t, yv, h)
    ELSE exponential_take_step(MagnusOrder(r), t, yv, h)

\* the take_step handed to fixed_step_lmde_solver_parallel_template_jax by
\* jax_RK4_parallel_solver and jax_expm_parallel_solver
parallel_take_step(r, v, t, h) ==
    IF r = "RK4" THEN RK4_parallel_take_step(Eye(RK4_parallel_dim(v)), t, h)
    ELSE propagator(MagnusOrder(r), t, h)

\* whether vmap of the take_step raises
parallel_take_step_raises(r, v) == r = "RK4" /\ ~BroadcastOK(RK4_parallel_dim(v))

----------------------------------------------------------------------------
(* trim_t_results: the values at the requested evaluation points *)

RECURSIVE SelectAt(_, _, _)
SelectAt(ts, vs, pts) ==
    IF ts = <<>> THEN <<>>
    ELSE (IF \E i \in DOMAIN pts : pts[i] = ts[1]
          THEN <<[t |-> ts[1], y |-> vs[1]]>> ELSE <<>>)
         \o SelectAt(Tail(ts), Tail(vs), pts)

trim_t_results(ts, vs, ev) ==
    IF ev.none THEN [i \in DOMAIN ts |-> [t |-> ts[i], y |-> vs[i]]]
    ELSE SelectAt(ts, vs, ev.pts)

----------------------------------------------------------------------------
(* The solver functions: RK4_solver, scipy_expm_solver, jax_expm_solver,      *)
(* jax_RK4_parallel_solver, jax_expm_parallel_solver                          *)

\* variant: every order from 1 on accepted
get_exponential_take_step_raises_low(order) == order < 1

\* get_exponential_take_step: the else branch of the if clause on magnus_order
get_exponential_take_step_raises(order) == ~(order = 1 \/ order = 2 \/ order = 3)

\* variant: the right-hand side is evaluated at t_span[0] before the checks
SolverCall_probe ==
    /\ pc = "call"
    /\ rhs_log' = Append(rhs_log, [mode |-> "seq", call |-> 0, ev |-> [t |-> t_span[1]]])
    /\ IF rule # "RK4" /\ get_exponential_take_step_raises(magnus_order)
       THEN pc' = "error" /\ err' = "QiskitError"
       ELSE pc' = "grid" /\ UNCHANGED err
    /\ UNCHANGED <<argVars, apiVars, workerVars, gridVars, seqVars, parVars>>

\* the solver function up to its call of the template: the expm solvers call
\* get_exponential_take_step first
SolverCall ==
    /\ pc = "call"
    /\ IF rule # "RK4" /\ get_exponential_take_step_raises(magnus_order)
       THEN pc' = "error" /\ err' = "QiskitError"
       ELSE pc' = "grid" /\ UNCHANGED err
    /\ UNCHANGED <<argVars, apiVars, workerVars, rhs_log, gridVars, seqVars, parVars>>

----------------------------------------------------------------------------
(* fixed_step_solver_template *)

\* variant: range(n_steps - 1)
InRange_short(stp, n_steps) == stp < n_steps - 1

\* for _ in range(n_steps): whether iteration number stp (from 0) runs
InRange(stp, n_steps) == stp < n_steps

\* the value the loop over an interval starts from: y = ys[-1]
IntervalStart(vs) == vs[Len(vs)]

\* the inner loop as a whole: n_steps applications of take_step from (t, yv)
RECURSIVE take_steps(_, _, _, _, _, _)
take_steps(r, t, yv, h, stp, n_steps) ==
    IF InRange(stp, n_steps)
    THEN take_steps(r, NumAdd(t, h), take_step(r, t, yv, h), h, stp + 1, n_steps)
    ELSE yv

RECURSIVE integrate_intervals(_, _, _, _)
integrate_intervals(r, grid, i, vs) ==
    IF i > Len(grid.h_list) THEN vs
    ELSE integrate_intervals(r, grid, i + 1,
             Append(vs, take_steps(r, grid.t_list[i], IntervalStart(vs), grid.h_list[i],
                                   0, grid.n_steps_list[i])))

\* the template as a whole: the raw trajectory ys
fixed_step_solver_template(r, span, v, mdt, ev) ==
    integrate_intervals(r, get_fixed_step_sizes(span, ev, mdt), 1, <<Y0Val(v)>>)

SeqStart ==
    /\ pc = "grid_done"
    /\ ys' = <<Y0Val(y0)>>
    /\ k' = 1
    /\ pc' = "seq_interval"
    /\ UNCHANGED <<argVars, apiVars, workerVars, rhs_log, gridVars, y, inner_t, step, calls, res_seq, parVars, err>>

\* for current_t, h, n_steps in zip(...): y = ys[-1]; inner_t = current_t
SeqInterval ==
    /\ pc = "seq_interval"
    /\ k <= Len(h_list)
    /\ y' = IntervalStart(ys)
    /\ inner_t' = t_list[k]
    /\ step' = 0
    /\ pc' = "seq_step"
    /\ UNCHANGED <<argVars, apiVars, workerVars, rhs_log, gridVars, ys, k, calls, res_seq, parVars, err>>

\* for _ in range(n_steps): y = take_step(...); inner_t = inner_t + h
SeqTakeStep ==
    /\ pc = "seq_step"
    /\ InRange(step, n_steps_list[k])
    /\ y' = take_step(rule, inner_t, y, h_list[k])
    /\ inner_t' = NumAdd(inner_t, h_list[k])
    /\ step' = step + 1
    /\ calls' = Append(calls, [interval |-> k, t |-> inner_t, h |-> h_list[k],
                               y_in |-> y, y_out |-> y'])
    /\ rhs_log' = rhs_log \o LogEntries("seq", Len(calls'), rhs_calls(rule, inner_t, h_list[k]))
    /\ UNCHANGED <<pc, argVars, apiVars, workerVars, gridVars, ys, k, res_seq, parVars, err>>

\* ys.append(y)
SeqAppend ==
    /\ pc = "seq_step"
    /\ ~InRange(step, n_steps_list[k])
    /\ ys' = Append(ys, y)
    /\ k' = k + 1
    /\ pc' = "seq_interval"
    /\ UNCHANGED <<argVars, apiVars, workerVars, rhs_log, gridVars, y, inner_t, step, calls, res_seq, parVars, err>>

\* results = OdeResult(t=t_list, y=ys); return trim_t_results(results, t_eval)
SeqReturn ==
    /\ pc = "seq_interval"
    /\ k > Len(h_list)
    /\ res_seq' = trim_t_results(t_list, ys, t_eval)
    /\ pc' = "par"
    /\ UNCHANGED <<argVars, apiVars, workerVars, rhs_log, gridVars, ys, y, inner_t, k, step, calls, parVars, err>>

----------------------------------------------------------------------------
(* fixed_step_solver_template_jax *)

\* max_steps = n_steps_list.max()
RECURSIVE max_steps(_)
max_steps(ns) ==
    IF Len(ns) = 1 THEN ns[1]
    ELSE LET m == max_steps(Tail(ns)) IN IF ns[1] > m THEN ns[1] ELSE m

\* variant: the step taken in one more iteration
scan_step_applies_leq(stp, n_steps) == stp <= n_steps

\* the predicate of cond in scan_take_step: step < n_steps
scan_step_applies(stp, n_steps) == stp < n_steps

\* scan(scan_interval_integrate, init=y0, ...): the carry starts as y0
JaxStart ==
    /\ pc = "grid_done"
    /\ ys' = <<>>
    /\ y' = Y0Val(y0)
    /\ k' = 1
    /\ pc' = "jax_interval"
    /\ UNCHANGED <<argVars, apiVars, workerVars, rhs_log, gridVars, inner_t, step, calls, res_seq, parVars, err>>

\* scan_interval_integrate: current_t, h, n_steps = x; current_y = carry
JaxInterval ==
    /\ pc = "jax_interval"
    /\ k <= Len(h_list)
    /\ inner_t' = t_list[k]
    /\ step' = 0
    /\ pc' = "jax_step"
    /\ UNCHANGED <<argVars, apiVars, workerVars, rhs_log, gridVars, ys, y, k, calls, res_seq, parVars, err>>

\* scan_take_step for step in jnp.arange(max_steps)
JaxTakeStep ==
    /\ pc = "jax_step"
    /\ step < max_steps(n_steps_list)
    /\ invoked' = Append(invoked, [fn |-> "cond", interval |-> k, step |-> step,
                                   pred |-> scan_step_applies(step, n_steps_list[k])])
    /\ IF scan_step_applies(step, n_steps_list[k])
       THEN /\ y' = take_step(rule, inner_t, y, h_list[k])
            /\ calls' = Append(calls, [interval |-> k, t |-> inner_t, h |-> h_list[k],
                                       y_in |-> y, y_out |-> y'])
            /\ rhs_log' = rhs_log
                   \o LogEntries("seq", Len(calls'), rhs_calls(rule, inner_t, h_list[k]))
       ELSE UNCHANGED <<y, calls, rhs_log>>
    /\ inner_t' = NumAdd(inner_t, h_list[k])
    /\ step' = step + 1
    /\ UNCHANGED <<pc, argVars, call_args, result, workerVars, gridVars, ys, k, res_seq, parVars, err>>

\* return next_y, next_y
JaxAppend ==
    /\ pc = "jax_step"
    /\ ~(step < max_steps(n_steps_list))
    /\ ys' = Append(ys, y)
    /\ k' = k + 1
    /\ pc' = "jax_interval"
    /\ UNCHANGED <<argVars, apiVars, workerVars, rhs_log, gridVars, y, inner_t, step, calls, res_seq, parVars, err>>

\* ys = jnp.append(jnp.expand_dims(y0, axis=0), ys, axis=0); results = ...
JaxReturn ==
    /\ pc = "jax_interval"
    /\ k > Len(h_list)
    /\ ys' = <<Y0Val(y0)>> \o ys
    /\ res_seq' = trim_t_results(t_list, ys', t_eval)
    /\ pc' = "done"
    /\ UNCHANGED <<argVars, apiVars, workerVars, rhs_log, gridVars, y, inner_t, k, step, calls, parVars, err>>

----------------------------------------------------------------------------
(* fixed_step_lmde_solver_parallel_template_jax *)

\* variant: the operands in the order given
reverse_mul_forward(A, B) == matmul(A, B)

reverse_mul(A, B) == matmul(B, A)

\* jax.lax.associative_scan(reverse_mul, elems): the recursive odd-even scan
RECURSIVE associative_scan(_)
associative_scan(elems) ==
    LET n == Len(elems)
        reduced == [i \in 1..(n \div 2) |-> reverse_mul(elems[2 * i - 1], elems[2 * i])]
        odd == associative_scan(reduced)
    IN  IF n < 2 THEN elems
        ELSE [j \in 1..n |->
                IF j = 1 THEN elems[1]
                ELSE IF j % 2 = 0 THEN odd[j \div 2]
                ELSE reverse_mul(odd[(j - 1) \div 2], elems[j])]

\* y0.ndim == 2 and y0.shape[0] == y0.shape[1]
IsSquare(v) == Len(v.shape) = 2 /\ v.shape[1] = v.shape[2]

\* intermediate_props[t_list_locations] of the square branch; Python indexes from 0
square_ys(props, locs) == [i \in DOMAIN locs |-> props[locs[i] + 1]]

\* intermediate_props[t_list_locations[1:] - 1] @ y0, with y0 prepended
nonsquare_ys(props, locs, yv) ==
    <<yv>> \o [i \in 1..(Len(locs) - 1) |-> matmul(props[(locs[i + 1] - 1) + 1], yv)]

\* variant: t + h * np.arange(1, n_steps + 1)
interval_times_from_one(t, h, n_steps) ==
    [j \in 1..n_steps |-> NumAdd(t, NumTimesInt(h, j))]

\* t + h * np.arange(n_steps)
interval_times(t, h, n_steps) ==
    [j \in 1..n_steps |-> NumAdd(t, NumTimesInt(h, j - 1))]

\* h * np.ones(n_steps)
interval_steps(h, n_steps) == [j \in 1..n_steps |-> h]

\* variant: one location per interval
next_location_one(locs, n_steps) == locs[Len(locs)] + 1

\* t_list_locations[-1] + n_steps
next_location(locs, n_steps) == locs[Len(locs)] + n_steps

\* variant: y0 appended after the step propagators
scan_props_y0_last(v, props) ==
    IF IsSquare(v) THEN associative_scan(props \o <<Y0Val(v)>>)
    ELSE associative_scan(props)

\* the scan of either branch and the values it keeps
scan_props(v, props) ==
    IF IsSquare(v) THEN associative_scan(<<Y0Val(v)>> \o props)
    ELSE associative_scan(props)

extract_ys(v, iprops, locs) ==
    IF IsSquare(v) THEN square_ys(iprops, locs)
    ELSE nonsquare_ys(iprops, locs, Y0Val(v))

RECURSIVE flatten_grid(_, _, _)
flatten_grid(grid, i, acc) ==
    IF i > Len(grid.h_list) THEN acc
    ELSE flatten_grid(grid, i + 1,
            [all_times |-> acc.all_times
                 \o interval_times(grid.t_list[i], grid.h_list[i], grid.n_steps_list[i]),
             all_h |-> acc.all_h \o interval_steps(grid.h_list[i], grid.n_steps_list[i]),
             locs |-> Append(acc.locs, next_location(acc.locs, grid.n_steps_list[i]))])

\* the template as a whole: the raw trajectory ys (when take_step does not raise)
fixed_step_lmde_solver_parallel_template_jax(r, span, v, mdt, ev) ==
    LET fl == flatten_grid(get_fixed_step_sizes(span, ev, mdt), 1,
                           [all_times |-> <<>>, all_h |-> <<>>, locs |-> <<0>>])
        props == [j \in DOMAIN fl.all_times |->
                     parallel_take_step(r, v, fl.all_times[j], fl.all_h[j])]
    IN  extract_ys(v, scan_props(v, props), fl.locs)

\* variant: only the non-square branch checks the shape of y0
parallel_scan_raises_nonsquare(v) == ~IsSquare(v) /\ v.shape[1] # GenDim

\* whether the branch taken for y0 raises: jnp.append of y0 to the (N, n, n)
\* array of propagators needs y0 of shape (n, n), and intermediate_props[...] @ y0
\* needs y0.shape[0] = n
parallel_scan_raises(v) ==
    IF IsSquare(v) THEN v.shape # <<GenDim, GenDim>> ELSE v.shape[1] # GenDim

\* a parallel solver called on its own: the template is entered after the grid
ParCall ==
    /\ pc = "grid_done"
    /\ pc' = "par"
    /\ UNCHANGED <<argVars, apiVars, workerVars, rhs_log, gridVars, seqVars, parVars, err>>

ParStart ==
    /\ pc = "par"
    /\ all_times' = <<>>
    /\ all_h' = <<>>
    /\ t_list_locations' = <<0>>
    /\ k' = 1
    /\ pc' = "par_setup"
    /\ UNCHANGED <<argVars, apiVars, workerVars, rhs_log, gridVars, ys, y, inner_t, step, calls, res_seq,
                   step_propagators, intermediate_props, ys_par, res_par, err>>

\* for t, h, n_steps in zip(t_list, h_list, n_steps_list): ...
ParSetup ==
    /\ pc = "par_setup"
    /\ k <= Len(h_list)
    /\ all_times' = all_times \o interval_times(t_list[k], h_list[k], n_steps_list[k])
    /\ all_h' = all_h \o interval_steps(h_list[k], n_steps_list[k])
    /\ t_list_locations' = Append(t_list_locations,
                               next_location(t_list_locations, n_steps_list[k]))
    /\ k' = k + 1
    /\ UNCHANGED <<pc, argVars, apiVars, workerVars, rhs_log, gridVars, ys, y, inner_t, step, calls, res_seq,
                   step_propagators, intermediate_props, ys_par, res_par, err>>

\* step_propagators = vmap(lambda t, h: take_step(generator, t, h))(all_times, all_h)
ParMap ==
    /\ pc = "par_setup"
    /\ k > Len(h_list)
    /\ IF parallel_take_step_raises(rule, y0)
       THEN /\ pc' = "error"
            /\ err' = "ShapeError"
            /\ rhs_log' = rhs_log \o LogEntries("par", 1,
                    SubSeq(parallel_generator_calls(rule, all_times[1], all_h[1]), 1, 2))
            /\ UNCHANGED step_propagators
       ELSE /\ step_propagators' = [j \in DOMAIN all_times |->
                    parallel_take_step(rule, y0, all_times[j], all_h[j])]
            /\ rhs_log' = rhs_log \o Flatten([j \in DOMAIN all_times |->
                    LogEntries("par", j,
                        parallel_generator_calls(rule, all_times[j], all_h[j]))])
            /\ pc' = "par_scan"
            /\ UNCHANGED err
    /\ UNCHANGED <<argVars, apiVars, workerVars, gridVars, seqVars, all_times, all_h, t_list_locations,
                   intermediate_props, ys_par, res_par>>

ParScan ==
    /\ pc = "par_scan"
    /\ IF parallel_scan_raises(y0)
       THEN /\ pc' = "error"
            /\ err' = "ShapeError"
            /\ UNCHANGED <<intermediate_props, ys_par, res_par>>
       ELSE /\ intermediate_props' = scan_props(y0, step_propagators)
            /\ ys_par' = extract_ys(y0, intermediate_props', t_list_locations)
            /\ res_par' = trim_t_results(t_list, ys_par', t_eval)
            /\ pc' = "done"
            /\ UNCHANGED err
    /\ UNCHANGED <<argVars, apiVars, workerVars, rhs_log, gridVars, seqVars, all_times, all_h, t_list_locations,
                   step_propagators>>

----------------------------------------------------------------------------
(* The parallel template with its two data-parallel operations run by workers: *)
(* vmap computes one propagator per lane, in any order; associative_scan       *)
(* applies reverse_mul level by level, the applications of one level in any    *)
(* order, a level starting when the level before it is complete.               *)

\* an output slot not yet written
Pending == <<[kind |-> "pending"]>>

\* variant: a level counts as complete once its first slot is written
LevelComplete_first(arr) == arr = <<>> \/ arr[1] # Pending

\* every slot of the level is written
LevelComplete(arr) == \A i \in DOMAIN arr : arr[i] # Pending

\* the elements handed to associative_scan
scan_elems(v, props) == IF IsSquare(v) THEN <<Y0Val(v)>> \o props ELSE props

\* lane j of vmap(lambda t, h: take_step(generator, t, h))(all_times, all_h)
LaneValue(j) == parallel_take_step(rule, y0, all_times[j], all_h[j])

MapBegin ==
    /\ pc = "par_setup"
    /\ k > Len(h_list)
    /\ IF parallel_take_step_raises(rule, y0)
       THEN /\ pc' = "error"
            /\ err' = "ShapeError"
            /\ rhs_log' = rhs_log \o LogEntries("par", 1,
                    SubSeq(parallel_generator_calls(rule, all_times[1], all_h[1]), 1, 2))
            /\ UNCHANGED step_propagators
       ELSE /\ step_propagators' = [j \in DOMAIN all_times |-> Pending]
            /\ pc' = "w_map"
            /\ UNCHANGED <<rhs_log, err>>
    /\ UNCHANGED <<argVars, apiVars, workerVars, gridVars, seqVars, all_times, all_h,
                   t_list_locations, intermediate_props, ys_par, res_par>>

\* one worker computes the propagator of its lane
LaneStep(j) ==
    /\ pc = "w_map"
    /\ step_propagators[j] = Pending
    /\ step_propagators' = [step_propagators EXCEPT ![j] = LaneValue(j)]
    /\ rhs_log' = rhs_log \o LogEntries("par", j,
                       parallel_generator_calls(rule, all_times[j], all_h[j]))
    /\ UNCHANGED <<pc, argVars, apiVars, workerVars, gridVars, seqVars, all_times, all_h,
                   t_list_locations, intermediate_props, ys_par, res_par, err>>

\* associative_scan on the complete level at the top of stack: a level of two
\* or more elements is reduced pairwise into a new level, a shorter one is
\* its own scan
Descend(stack) ==
    LET top == stack[Len(stack)]
    IN  IF Len(top) >= 2
        THEN /\ down' = Append(stack, [i \in 1..(Len(top) \div 2) |-> Pending])
             /\ pc' = "w_reduce"
             /\ UNCHANGED <<up, lvl>>
        ELSE /\ down' = stack
             /\ up' = top
             /\ lvl' = Len(stack)
             /\ pc' = "w_up"

\* the map is complete: the scan of either branch begins
ScanBegin ==
    /\ pc = "w_map"
    /\ LevelComplete(step_propagators)
    /\ IF parallel_scan_raises(y0)
       THEN /\ pc' = "error"
            /\ err' = "ShapeError"
            /\ UNCHANGED workerVars
       ELSE /\ Descend(<<scan_elems(y0, step_propagators)>>)
            /\ UNCHANGED err
    /\ UNCHANGED <<argVars, apiVars, rhs_log, gridVars, seqVars, parVars>>

\* one application of reverse_mul to a pair of adjacent elements
ReduceStep(i) ==
    /\ pc = "w_reduce"
    /\ i \in DOMAIN down[Len(down)]
    /\ down[Len(down)][i] = Pending
    /\ down' = [down EXCEPT ![Len(down)][i] =
                    reverse_mul(down[Len(down) - 1][2 * i - 1], down[Len(down) - 1][2 * i])]
    /\ UNCHANGED <<pc, argVars, apiVars, rhs_log, up, lvl, gridVars, seqVars, parVars, err>>

\* the level of pairs is complete: the recursive call on it
ReduceDone ==
    /\ pc = "w_reduce"
    /\ LevelComplete(down[Len(down)])
    /\ Descend(down)
    /\ UNCHANGED <<argVars, apiVars, rhs_log, gridVars, seqVars, parVars, err>>

\* the scan of level lvl + 1 is complete: the scan of level lvl takes its first
\* element from the level itself and its even elements from the scan below
\* (interleave); its other elements are still to be combined
Ascend ==
    /\ pc = "w_up"
    /\ LevelComplete(up)
    /\ lvl > 1
    /\ lvl' = lvl - 1
    /\ up' = [j \in DOMAIN down[lvl - 1] |->
                 IF j = 1 THEN down[lvl - 1][1]
                 ELSE IF j % 2 = 0 THEN up[j \div 2]
                 ELSE Pending]
    /\ UNCHANGED <<pc, argVars, apiVars, rhs_log, down, gridVars, seqVars, parVars, err>>

\* one application of reverse_mul to a scanned element and the element after it
CombineStep(j) ==
    /\ pc = "w_up"
    /\ j \in DOMAIN up
    /\ up[j] = Pending
    /\ up' = [up EXCEPT ![j] = reverse_mul(up[j - 1], down[lvl][j])]
    /\ UNCHANGED <<pc, argVars, apiVars, rhs_log, down, lvl, gridVars, seqVars, parVars, err>>

\* the scan is complete: extract the breakpoints and return
WorkersReturn ==
    /\ pc = "w_up"
    /\ LevelComplete(up)
    /\ lvl = 1
    /\ intermediate_props' = up
    /\ ys_par' = extract_ys(y0, up, t_list_locations)
    /\ res_par' = trim_t_results(t_list, ys_par', t_eval)
    /\ pc' = "done"
    /\ UNCHANGED <<argVars, apiVars, rhs_log, workerVars, gridVars, seqVars, all_times, all_h,
                   t_list_locations, step_propagators, err>>

----------------------------------------------------------------------------
(* Arguments *)

SpanPoints == {Num(c, 0) : c \in 0..MaxT}
EvalPoints == {Num(c, f) : c \in 0..MaxT, f \in 0..MaxFine}

SeqsUpTo(S, n) == UNION {[1..m -> S] : m \in 1..n}

Rules == {"magnus1", "magnus2", "magnus3", "RK4"}

\* the values of the magnus_order argument
Orders == (3 - MaxOrder)..MaxOrder

\* the rule an expm solver called with magnus_order = o asks for
RuleOf(o) ==
    CASE o = 1 -> "magnus1" [] o = 2 -> "magnus2" [] o = 3 -> "magnus3"
      [] OTHER -> "expm"

\* the state before a call, but for the further arguments
BlankState ==
    /\ t_list = <<>> /\ delta_t_list = <<>> /\ n_steps_list = <<>>
    /\ h_list = <<>> /\ idx = 0
    /\ ys = <<>> /\ y = <<>> /\ inner_t = Num(0, 0) /\ k = 0 /\ step = 0
    /\ calls = <<>>
    /\ all_times = <<>> /\ all_h = <<>> /\ t_list_locations = <<>>
    /\ step_propagators = <<>> /\ intermediate_props = <<>> /\ ys_par = <<>>
    /\ res_seq = <<>> /\ res_par = <<>>
    /\ rhs_log = <<>>
    /\ down = <<>> /\ up = <<>> /\ lvl = 0
    /\ invoked = <<>> /\ result = <<>>
    /\ err = ""

Blank == BlankState /\ call_args = <<>>

\* t_eval of the grid specification: points next to the whole numbers, and
\* longer lists of whole numbers
GridEvals ==
    {NoEval} \cup {Eval(p) : p \in SeqsUpTo(EvalPoints, GridMaxEval)}
             \cup {Eval(p) : p \in SeqsUpTo(SpanPoints, GridMaxEval + 1)}

\* the call get_fixed_step_sizes((0, 1), [0.25, 0.5, 0.75], 0.3)
ScenarioSpan == <<Num(0, 0), Num(1, 0)>>
ScenarioEval == Eval(<<Frac(1, 4), Frac(1, 2), Frac(3, 4)>>)
ScenarioMaxDt == Frac(3, 10)

InitGrid ==
    /\ pc = "grid"
    /\ \/ /\ t_span \in {s \in SpanPoints \X SpanPoints : s[1] # s[2]}
          /\ t_eval \in GridEvals
          /\ max_dt \in {Num(m, 0) : m \in 1..MaxDt}
       \/ /\ t_span = ScenarioSpan
          /\ t_eval = ScenarioEval
          /\ max_dt = ScenarioMaxDt
    /\ rule = "magnus1"
    /\ magnus_order = 1
    /\ y0 = [shape |-> <<GenDim>>, eye |-> FALSE]
    /\ Blank

NextGrid == GridMerge \/ GridCorrect \/ GridStepSizes

SpecGrid == InitGrid /\ [][NextGrid]_vars

Y0s == {[shape |-> <<GenDim>>, eye |-> FALSE],
        [shape |-> <<GenDim, 1>>, eye |-> FALSE],
        [shape |-> <<GenDim, GenDim>>, eye |-> FALSE],
        [shape |-> <<GenDim, GenDim>>, eye |-> TRUE],
        [shape |-> <<GenDim, GenDim + 1>>, eye |-> FALSE]}

\* shapes of y0 that do not fit an n x n generator
BadY0s == {[shape |-> <<GenDim + 1>>, eye |-> FALSE],
           [shape |-> <<1>>, eye |-> FALSE],
           [shape |-> <<GenDim + 1, GenDim>>, eye |-> FALSE],
           [shape |-> <<GenDim + 1, 1>>, eye |-> FALSE],
           [shape |-> <<GenDim + 1, GenDim + 1>>, eye |-> FALSE],
           [shape |-> <<1, 1>>, eye |-> FALSE]}

\* a call of jax_RK4_parallel_solver or jax_expm_parallel_solver
InitParallel ==
    /\ pc = "call"
    /\ t_span \in {s \in SpanPoints \X SpanPoints : s[1] # s[2]}
    /\ t_eval \in {NoEval} \cup {Eval(<<p>>) : p \in SpanPoints}
    /\ max_dt \in {Num(m, 0) : m \in 1..MaxDt}
    /\ rule \in Rules
    /\ magnus_order = IF rule = "RK4" THEN 1 ELSE MagnusOrder(rule)
    /\ y0 \in Y0s \cup BadY0s
    /\ Blank

NextParallel ==
    \/ SolverCall
    \/ GridMerge \/ GridCorrect \/ GridStepSizes
    \/ ParCall \/ ParStart \/ ParSetup \/ ParMap \/ ParScan

SpecParallel == InitParallel /\ [][NextParallel]_vars

\* a call of a parallel solver whose y0 fits the generator
InitWorkers == InitParallel /\ y0 \in Y0s

NextWorkers ==
    \/ SolverCall
    \/ GridMerge \/ GridCorrect \/ GridStepSizes
    \/ ParCall \/ ParStart \/ ParSetup
    \/ MapBegin
    \/ \E j \in DOMAIN step_propagators : LaneStep(j)
    \/ ScanBegin
    \/ \E i \in 1..Len(all_times) : ReduceStep(i)
    \/ ReduceDone
    \/ Ascend
    \/ \E j \in 1..(Len(all_times) + 1) : CombineStep(j)
    \/ WorkersReturn

SpecWorkers == InitWorkers /\ [][NextWorkers]_vars

\* a call of RK4_solver or scipy_expm_solver on a state vector
InitSequential ==
    /\ pc = "call"
    /\ t_span \in {s \in SpanPoints \X SpanPoints : s[1] # s[2]}
    /\ t_eval \in {NoEval} \cup {Eval(p) : p \in SeqsUpTo(SpanPoints, MaxEval)}
    /\ max_dt \in {Num(m, 0) : m \in 1..MaxDt}
    /\ rule \in Rules
    /\ magnus_order = IF rule = "RK4" THEN 1 ELSE MagnusOrder(rule)
    /\ y0 = [shape |-> <<GenDim>>, eye |-> FALSE]
    /\ Blank

NextSequential ==
    \/ SolverCall
    \/ GridMerge \/ GridCorrect \/ GridStepSizes
    \/ SeqStart \/ SeqInterval \/ SeqTakeStep \/ SeqAppend \/ SeqReturn

SpecSequential == InitSequential /\ [][NextSequential]_vars

\* the step sizes get_fixed_step_sizes can hand to take_step
StepSizes == {Norm(sgn * n, 0, d) : sgn \in {-1, 1}, n \in 1..MaxT, d \in 1..MaxDt}

\* one call take_step(rhs_func, t, y, h) of the rule's step function
InitStep ==
    /\ pc = "step_call"
    /\ t_span = <<Num(0, 0), Num(MaxT, 0)>>
    /\ t_eval = NoEval
    /\ max_dt = Num(MaxDt, 0)
    /\ rule \in Rules
    /\ magnus_order = IF rule = "RK4" THEN 1 ELSE MagnusOrder(rule)
    /\ y0 = [shape |-> <<GenDim>>, eye |-> FALSE]
    /\ t_list = <<>> /\ delta_t_list = <<>> /\ n_steps_list = <<>>
    /\ h_list \in {<<h>> : h \in StepSizes} /\ idx = 0
    /\ ys = <<>> /\ y = Y0Val(y0) /\ k = 1 /\ step = 0
    /\ inner_t \in SpanPoints
    /\ calls = <<>>
    /\ all_times = <<>> /\ all_h = <<>> /\ t_list_locations = <<>>
    /\ step_propagators = <<>> /\ intermediate_props = <<>> /\ ys_par = <<>>
    /\ res_seq = <<>> /\ res_par = <<>>
    /\ rhs_log = <<>>
    /\ down = <<>> /\ up = <<>> /\ lvl = 0
    /\ call_args = <<>> /\ invoked = <<>> /\ result = <<>>
    /\ err = ""

\* y = take_step(rhs_func, t, y, h)
StepCall ==
    /\ pc = "step_call"
    /\ y' = take_step(rule, inner_t, y, h_list[k])
    /\ calls' = Append(calls, [interval |-> k, t |-> inner_t, h |-> h_list[k],
                               y_in |-> y, y_out |-> y'])
    /\ rhs_log' = rhs_log \o LogEntries("seq", Len(calls'), rhs_calls(rule, inner_t, h_list[k]))
    /\ pc' = "step_done"
    /\ UNCHANGED <<argVars, apiVars, workerVars, gridVars, ys, inner_t, k, step, res_seq, parVars, err>>

NextStep == StepCall

SpecStep == InitStep /\ [][NextStep]_vars

----------------------------------------------------------------------------
(* diffrax_solver *)

\* c2r(arr): jnp.concatenate([jnp.real(arr), jnp.imag(arr)])
c2r(v) == [shape |-> <<2 * v.shape[1]>> \o Tail(v.shape), eye |-> FALSE]

\* SaveAt(ts=t_eval)
SaveAt(ts) == [ts |-> ts]

\* variant: the test made on either argument
diffrax_conflict_either(kwargs, te) == "saveat" \in DOMAIN kwargs \/ ~te.none

\* "saveat" in kwargs and t_eval is not None
diffrax_conflict(kwargs, te) == "saveat" \in DOMAIN kwargs /\ ~te.none

\* kwargs as handed to diffeqsolve: kwargs["saveat"] = SaveAt(ts=t_eval) if
\* t_eval is not None
diffrax_kwargs(kwargs, te) ==
    IF ~te.none THEN ("saveat" :> SaveAt(te.pts)) @@ kwargs ELSE kwargs

\* diffrax_solver up to and including the call of diffeqsolve
DiffraxCall ==
    /\ pc = "diffrax_call"
    /\ IF diffrax_conflict(call_args.kwargs, t_eval)
       THEN /\ pc' = "error"
            /\ err' = "QiskitError"
            /\ UNCHANGED invoked
       ELSE /\ pc' = "diffrax_results"
            /\ invoked' = Append(invoked,
                   [fn |-> "diffeqsolve", t0 |-> t_span[1], t1 |-> t_span[Len(t_span)],
                    y0 |-> c2r(y0), kwargs |-> diffrax_kwargs(call_args.kwargs, t_eval)])
            /\ UNCHANGED err
    /\ UNCHANGED <<argVars, workerVars, rhs_log, gridVars, seqVars, parVars, call_args, result>>

\* results_out = OdeResult(t=ts, y=jnp.array(ys, dtype=complex), **sol_dict)
DiffraxReturn ==
    /\ pc = "diffrax_results"
    /\ result' = [t |-> [of |-> "ts", call |-> Len(invoked)],
                  y |-> [of |-> "r2c(ys)", call |-> Len(invoked)]]
    /\ pc' = "done"
    /\ UNCHANGED <<argVars, workerVars, rhs_log, gridVars, seqVars, parVars, call_args, invoked, err>>

\* the keyword arguments of the call: a saveat, a max_steps, both or neither
DiffraxKwargs ==
    LET vals == [saveat |-> {SaveAt(<<p>>) : p \in SpanPoints} \cup {[t1 |-> TRUE]},
                 max_steps |-> {16}]
        both == {[saveat |-> a, max_steps |-> b] : a \in vals.saveat, b \in vals.max_steps}
    IN  {<<>>} \cup {[saveat |-> a] : a \in vals.saveat}
               \cup {[max_steps |-> b] : b \in vals.max_steps} \cup both

InitDiffrax ==
    /\ pc = "diffrax_call"
    /\ t_span \in {s \in SpanPoints \X SpanPoints : s[1] # s[2]}
    /\ t_eval \in {NoEval} \cup {Eval(p) : p \in SeqsUpTo(SpanPoints, MaxEval)}
    /\ max_dt = Num(1, 0)
    /\ rule = "RK4"
    /\ magnus_order = 1
    /\ y0 = [shape |-> <<GenDim>>, eye |-> FALSE]
    /\ BlankState
    /\ call_args \in {[kwargs |-> kw] : kw \in DiffraxKwargs}

NextDiffrax == DiffraxCall \/ DiffraxReturn

SpecDiffrax == InitDiffrax /\ [][NextDiffrax]_vars

----------------------------------------------------------------------------
(* HamiltonianModel.__init__ *)

None == [none |-> TRUE]
Some(v) == [none |-> FALSE, val |-> v]

\* tol = 1e-10 of is_hermitian, in units of 1e-11
HermitianTol == 10

\* variant: an operator at the tolerance accepted
is_hermitian_leq(operator) == operator.dev <= HermitianTol

\* np.linalg.norm(adj - operator) < tol; an operator is given by the norm dev
\* of adj - operator in units of 1e-11
is_hermitian(operator) == operator.dev < HermitianTol

\* all(is_hermitian(op) for op in operators): the operators tested, up to and
\* including the first that is not Hermitian
RECURSIVE all_hermitian_tested(_)
all_hermitian_tested(ops) ==
    IF ops = <<>> THEN <<>>
    ELSE IF is_hermitian(Head(ops)) THEN <<Head(ops)>> \o all_hermitian_tested(Tail(ops))
         ELSE <<Head(ops)>>

all_hermitian(ops) == \A i \in DOMAIN ops : is_hermitian(ops[i])

hermitian_calls(ops) == [i \in DOMAIN ops |-> [fn |-> "is_hermitian", operator |-> ops[i]]]

\* HamiltonianModel.__init__ up to the call of super().__init__
HamiltonianValidate ==
    /\ pc = "ham_init"
    /\ LET operators == call_args.operators
           static_operator == call_args.static_operator
       IN  IF ~call_args.validate
           THEN pc' = "ham_super" /\ UNCHANGED <<invoked, err>>
           ELSE IF ~operators.none /\ ~all_hermitian(operators.val)
           THEN /\ invoked' = invoked \o hermitian_calls(all_hermitian_tested(operators.val))
                /\ pc' = "error" /\ err' = "QiskitError"
           ELSE LET tested == (IF operators.none THEN <<>> ELSE operators.val)
                                \o (IF static_operator.none THEN <<>>
                                    ELSE <<static_operator.val>>)
                IN  /\ invoked' = invoked \o hermitian_calls(tested)
                    /\ IF ~static_operator.none /\ ~is_hermitian(static_operator.val)
                       THEN pc' = "error" /\ err' = "QiskitError"
                       ELSE pc' = "ham_super" /\ UNCHANGED err
    /\ UNCHANGED <<argVars, workerVars, rhs_log, gridVars, seqVars, parVars, call_args, result>>

\* super().__init__(static_operator=..., operators=..., ...)
HamiltonianSuper ==
    /\ pc = "ham_super"
    /\ invoked' = Append(invoked, [fn |-> "GeneratorModel.__init__",
                                   static_operator |-> call_args.static_operator,
                                   operators |-> call_args.operators])
    /\ result' = [model |-> "HamiltonianModel", built_by |-> Len(invoked')]
    /\ pc' = "done"
    /\ UNCHANGED <<argVars, workerVars, rhs_log, gridVars, seqVars, parVars, call_args, err>>

\* norms of adj - operator: Hermitian, just below, at and above the tolerance
Devs == {0} \cup ((HermitianTol - 1)..MaxDev)
Operators == {[dev |-> d] : d \in Devs}

InitHamiltonian ==
    /\ pc = "ham_init"
    /\ t_span = <<Num(0, 0), Num(MaxT, 0)>>
    /\ t_eval = NoEval
    /\ max_dt = Num(1, 0)
    /\ rule = "RK4"
    /\ magnus_order = 1
    /\ y0 = [shape |-> <<GenDim>>, eye |-> FALSE]
    /\ BlankState
    /\ call_args \in
          {[operators |-> o, static_operator |-> st, validate |-> v] :
              o \in {None, Some(<<>>)} \cup {Some(q) : q \in SeqsUpTo(Operators, MaxOps)},
              st \in {None} \cup {Some(q) : q \in Operators},
              v \in BOOLEAN}

NextHamiltonian == HamiltonianValidate \/ HamiltonianSuper

SpecHamiltonian == InitHamiltonian /\ [][NextHamiltonian]_vars

----------------------------------------------------------------------------
(* solve_lmde_perturbation *)

\* (expansion_order is None) and (expansion_terms is None)
expansion_unspecified(expansion_order, expansion_terms) ==
    expansion_order.none /\ expansion_terms.none

\* len(y0.shape) != 2 or y0.shape[0] != y0.shape[1]
y0_not_square(v) == Len(v.shape) # 2 \/ v.shape[1] # v.shape[2]

\* the calls A_func(t_span[0]) of the loop over perturbations, which breaks at
\* the first array whose backend is not "jax"
RECURSIVE backend_calls(_, _)
backend_calls(backends, i) ==
    IF i > Len(backends) THEN <<>>
    ELSE <<[fn |-> "A_func", index |-> i - 1]>>
           \o (IF backends[i] # "jax" THEN <<>> ELSE backend_calls(backends, i + 1))

\* use_jax after the loop over perturbations and the test of the generator
use_jax(backends, generator) ==
    /\ \A i \in DOMAIN backends : backends[i] = "jax"
    /\ generator.none \/ generator.val = "jax"

\* the call generator(t_span[0]), made if use_jax holds after the loop
generator_calls(backends, generator) ==
    IF (\A i \in DOMAIN backends : backends[i] = "jax") /\ ~generator.none
    THEN <<[fn |-> "generator", index |-> 0]>> ELSE <<>>

RECURSIVE SortedInsert(_, _)
SortedInsert(x, xs) ==
    IF xs = <<>> THEN <<x>>
    ELSE IF x <= Head(xs) THEN <<x>> \o xs
         ELSE <<Head(xs)>> \o SortedInsert(x, Tail(xs))

RECURSIVE sorted_multiset(_)
sorted_multiset(xs) == IF xs = <<>> THEN <<>> ELSE SortedInsert(Head(xs), sorted_multiset(Tail(xs)))

\* clean_index_multisets: each multiset sorted, repeated multisets dropped
RECURSIVE clean_index_multisets(_)
clean_index_multisets(ms) ==
    IF ms = <<>> THEN <<>>
    ELSE LET rest == clean_index_multisets(SubSeq(ms, 1, Len(ms) - 1))
             last == sorted_multiset(ms[Len(ms)])
         IN  IF \E i \in DOMAIN rest : rest[i] = last THEN rest ELSE Append(rest, last)

\* [[idx] for idx in range(len(perturbations))]
default_indices(n) == [i \in 1..n |-> <<i - 1>>]

\* unique_indices of merge_expansion_order_terms
RECURSIVE unique_indices(_)
unique_indices(flat) ==
    IF flat = <<>> THEN <<>>
    ELSE LET rest == unique_indices(SubSeq(flat, 1, Len(flat) - 1))
             x == flat[Len(flat)]
         IN  IF \E i \in DOMAIN rest : rest[i] = x THEN rest ELSE Append(rest, x)

\* product(unique_indices, repeat=n) for from_same = FALSE and
\* combinations_with_replacement(unique_indices, n) for from_same = TRUE, with
\* the first position taken from lo on
RECURSIVE index_tuples(_, _, _, _)
index_tuples(U, n, lo, from_same) ==
    IF n = 0 THEN <<<<>>>>
    ELSE LET tails(i) == index_tuples(U, n - 1, IF from_same THEN i ELSE 1, from_same)
             block(i) == [j \in DOMAIN tails(i) |-> <<U[i]>> \o tails(i)[j]]
         IN  Flatten([i \in 1..(Len(U) - lo + 1) |-> block(i + lo - 1)])

merge_expansion_order_terms(expansion_order, expansion_terms, perturbation_indices, symmetric) ==
    LET U == unique_indices(Flatten(perturbation_indices))
        given == IF expansion_terms.none THEN <<>> ELSE expansion_terms.val
    IN  IF expansion_order.none THEN given
        ELSE given \o index_tuples(U, expansion_order.val, 1, symmetric)

\* "symmetric" in expansion_method
symmetric_in(expansion_method) ==
    expansion_method \in {"symmetric_dyson", "symmetric_magnus", "symmetric"}

\* variant: the method recognised by the word it ends with
perturbation_solver_by_suffix(expansion_method, jax) ==
    IF expansion_method \in {"dyson", "symmetric_dyson"}
    THEN (IF jax THEN "solve_lmde_dyson_jax" ELSE "solve_lmde_dyson")
    ELSE IF expansion_method \in {"symmetric_magnus", "magnus"}
    THEN (IF jax THEN "solve_lmde_symmetric_magnus_jax" ELSE "solve_lmde_symmetric_magnus")
    ELSE "none"

\* the solver solve_lmde_perturbation hands the problem to, "none" if
\* expansion_method is none of 'dyson', 'symmetric_dyson', 'symmetric_magnus'
perturbation_solver(expansion_method, jax) ==
    IF expansion_method \in {"dyson", "symmetric_dyson"}
    THEN (IF jax THEN "solve_lmde_dyson_jax" ELSE "solve_lmde_dyson")
    ELSE IF expansion_method = "symmetric_magnus"
    THEN (IF jax THEN "solve_lmde_symmetric_magnus_jax" ELSE "solve_lmde_symmetric_magnus")
    ELSE "none"

\* solve_lmde_perturbation up to the merge of expansion_order and
\* expansion_terms; merged holds the values the function rebinds
\* perturbation_indices and expansion_terms to
PerturbationValidate ==
    /\ pc = "pert_call"
    /\ LET a == call_args
           evals == backend_calls(a.backends, 1) \o generator_calls(a.backends, a.generator)
           cleaned == IF a.perturbation_indices.none
                      THEN default_indices(Len(a.backends))
                      ELSE clean_index_multisets(a.perturbation_indices.val)
       IN  IF expansion_unspecified(a.expansion_order, a.expansion_terms)
           THEN pc' = "error" /\ err' = "QiskitError" /\ UNCHANGED <<invoked, call_args>>
           ELSE IF ~a.y0.none /\ y0_not_square(a.y0.val)
           THEN pc' = "error" /\ err' = "QiskitError" /\ UNCHANGED <<invoked, call_args>>
           ELSE /\ invoked' = invoked \o evals
                /\ IF ~a.perturbation_indices.none
                      /\ (a.expansion_method = "dyson"
                          \/ Len(cleaned) # Len(a.perturbation_indices.val))
                   THEN pc' = "error" /\ err' = "QiskitError" /\ UNCHANGED call_args
                   ELSE /\ pc' = "pert_solve"
                        /\ call_args' =
                              [a EXCEPT !.merged =
                                  Some([perturbation_indices |-> cleaned,
                                        expansion_terms |->
                                            merge_expansion_order_terms(
                                                a.expansion_order, a.expansion_terms,
                                                cleaned, symmetric_in(a.expansion_method))])]
                        /\ UNCHANGED err
    /\ UNCHANGED <<argVars, workerVars, rhs_log, gridVars, seqVars, parVars, result>>

\* the hand-over to the solver of the expansion method, or the final raise
PerturbationSolve ==
    /\ pc = "pert_solve"
    /\ LET a == call_args
           solver == perturbation_solver(a.expansion_method,
                                         use_jax(a.backends, a.generator))
       IN  IF solver = "none"
           THEN pc' = "error" /\ err' = "QiskitError" /\ UNCHANGED <<invoked, result>>
           ELSE /\ invoked' = Append(invoked,
                       [fn |-> solver, terms |-> a.merged.val.expansion_terms,
                        perturbation_indices |-> a.merged.val.perturbation_indices,
                        symmetric |-> a.expansion_method = "symmetric_dyson"])
                /\ result' = [returned_by |-> solver, call |-> Len(invoked')]
                /\ pc' = "done"
                /\ UNCHANGED err
    /\ UNCHANGED <<argVars, workerVars, rhs_log, gridVars, seqVars, parVars, call_args>>

ExpansionMethods == {"dyson", "symmetric_dyson", "symmetric_magnus", "magnus", "symmetric"}

InitPerturbation ==
    /\ pc = "pert_call"
    /\ t_span = <<Num(0, 0), Num(MaxT, 0)>>
    /\ t_eval = NoEval
    /\ max_dt = Num(1, 0)
    /\ rule = "RK4"
    /\ magnus_order = 1
    /\ y0 = [shape |-> <<GenDim>>, eye |-> FALSE]
    /\ BlankState
    /\ call_args \in
          {[expansion_method |-> m, expansion_order |-> o, expansion_terms |-> tm,
            perturbation_indices |-> pi, y0 |-> v, backends |-> b, generator |-> g,
            merged |-> None] :
              m \in ExpansionMethods,
              o \in {None} \cup {Some(n) : n \in 1..MaxExpansionOrder},
              tm \in {None, Some(<<<<0>>>>), Some(<<<<0, 1>>>>)},
              pi \in {None, Some(<<<<0>>, <<1>>>>), Some(<<<<0, 1>>, <<1, 0>>>>)},
              v \in {None, Some([shape |-> <<GenDim, GenDim>>]),
                           Some([shape |-> <<GenDim, 1>>])},
              b \in {<<"jax">>, <<"numpy">>, <<"jax", "numpy">>, <<"jax", "jax">>},
              g \in {None, Some("jax"), Some("numpy")}}

NextPerturbation == PerturbationValidate \/ PerturbationSolve

SpecPerturbation == InitPerturbation /\ [][NextPerturbation]_vars

\* a call of jax_RK4_solver or jax_expm_solver on a state vector
InitJax == InitSequential

NextJax ==
    \/ SolverCall
    \/ GridMerge \/ GridCorrect \/ GridStepSizes
    \/ JaxStart \/ JaxInterval \/ JaxTakeStep \/ JaxAppend \/ JaxReturn

SpecJax == InitJax /\ [][NextJax]_vars

Init ==
    /\ pc = "call"
    /\ t_span \in {s \in SpanPoints \X SpanPoints : s[1] # s[2]}
    /\ t_eval \in {NoEval} \cup {Eval(p) : p \in SeqsUpTo(SpanPoints, MaxEval)}
    /\ max_dt \in {Num(m, 0) : m \in 1..MaxDt}
    /\ \/ rule = "RK4" /\ magnus_order = 1
       \/ magnus_order \in Orders /\ rule = RuleOf(magnus_order)
    /\ y0 \in Y0s
    /\ Blank

Next ==
    \/ SolverCall
    \/ GridMerge \/ GridCorrect \/ GridStepSizes
    \/ SeqStart \/ SeqInterval \/ SeqTakeStep \/ SeqAppend \/ SeqReturn
    \/ ParStart \/ ParSetup \/ ParMap \/ ParScan

Spec == Init /\ [][Next]_vars

----------------------------------------------------------------------------
(* Claims about the grid, checked under SpecGrid *)

Intervals == DOMAIN delta_t_list
GridDone == pc = "grid_done"
Backward == NumLess(t_span[2], t_span[1])

\* ceil(|delta_t| / max_dt)
CeilSteps(delta_t, mdt) ==
    LET a == NumAbs(NumDiv(delta_t, mdt))
        q == a.c \div a.d
    IN  IF a.c % a.d = 0 /\ a.f <= 0 THEN q ELSE q + 1

IMax(a, b) == IF a > b THEN a ELSE b

\* |delta_t| / n <= max_dt * (1 + 1e-15)
WithinTol(delta_t, n, mdt) ==
    NumLeq(NumAbs(delta_t), NumTimesInt(NumAdd(mdt, NumMul(mdt, Num(0, TolEps))), n))

InGap(delta_t, n, mdt) ==
    WithinTol(delta_t, n, mdt) /\ ~NumLeq(NumAbs(delta_t), NumTimesInt(mdt, n))

C5_StepsCoverInterval ==
    GridDone => \A i \in Intervals :
        /\ n_steps_list[i] >= 1
        /\ h_list[i].d >= 1
        /\ NumTimesInt(h_list[i], n_steps_list[i]) = delta_t_list[i]
        /\ delta_t_list[i] = NumSub(t_list[i + 1], t_list[i])
        /\ NumSign(h_list[i]) = NumSign(delta_t_list[i])
        /\ NumAdd(t_list[i], NumTimesInt(h_list[i], n_steps_list[i])) = t_list[i + 1]

\* a backward grid with an interval shorter than max_dt (truncated count 0)
\* and an interval of several negative steps
C5_Witness ==
    /\ GridDone
    /\ Backward
    /\ \E i \in Intervals : TruncSteps(delta_t_list[i], max_dt) = 0
    /\ \E j \in Intervals : n_steps_list[j] >= 2 /\ NumSign(h_list[j]) < 0

\* some point of t_eval lies outside [min(t0, tf), max(t0, tf)]
OutOfRange ==
    \E i \in DOMAIN t_eval.pts :
        \/ NumLess(t_eval.pts[i], t_span[1]) /\ NumLess(t_eval.pts[i], t_span[2])
        \/ NumLess(t_span[1], t_eval.pts[i]) /\ NumLess(t_span[2], t_eval.pts[i])

\* some point of t_eval comes before its predecessor in the direction of integration
Unsorted ==
    \E i \in 1..(Len(t_eval.pts) - 1) :
        IF Backward THEN NumLess(t_eval.pts[i], t_eval.pts[i + 1])
        ELSE NumLess(t_eval.pts[i + 1], t_eval.pts[i])

GridFailed == pc = "error" /\ err = "InvalidGridError"

\* C13: when t_eval has a point outside the span or is not sorted in the
\* direction of integration, building the grid fails with an error and returns
\* no grid: nothing is clamped, reordered or dropped.
C13_MalformedTEvalFails ==
    (pc # "grid" /\ (OutOfRange \/ Unsorted)) =>
        /\ GridFailed
        /\ t_list = <<>> /\ n_steps_list = <<>> /\ h_list = <<>>

\* a backward span with an in-range t_eval in ascending order
C13_Witness == GridFailed /\ Backward /\ Unsorted /\ ~OutOfRange

\* C14: for valid arguments the breakpoint list starts at t_span[0], ends at
\* t_span[1], is strictly monotonic in the direction of integration and holds
\* every point of t_eval.
C14_BreakpointsCoverRequest ==
    (pc # "grid" /\ ~OutOfRange /\ ~Unsorted) =>
        /\ pc \in {"correct", "grid_done"}
        /\ t_list[1] = t_span[1]
        /\ t_list[Len(t_list)] = t_span[2]
        /\ \A i \in 1..(Len(t_list) - 1) :
              IF Backward THEN NumLess(t_list[i + 1], t_list[i])
              ELSE NumLess(t_list[i], t_list[i + 1])
        /\ \A i \in DOMAIN t_eval.pts : \E j \in DOMAIN t_list : t_list[j] = t_eval.pts[i]

\* a backward grid whose t_eval repeats the start of the span and has an
\* interior point
C14_Witness ==
    /\ GridDone /\ Backward
    /\ Len(t_eval.pts) = 2
    /\ t_eval.pts[1] = t_span[1]
    /\ Len(t_list) = 3

\* C18: get_fixed_step_sizes((0, 1), [0.25, 0.5, 0.75], 0.3) returns the
\* breakpoints [0, 0.25, 0.5, 0.75, 1], the step counts [1, 1, 1, 1] and the
\* step sizes [0.25, 0.25, 0.25, 0.25].
C18_ConcreteGrid ==
    (GridDone /\ t_span = ScenarioSpan /\ t_eval = ScenarioEval
              /\ max_dt = ScenarioMaxDt) =>
        /\ t_list = <<[c |-> 0, f |-> 0, d |-> 1], [c |-> 1, f |-> 0, d |-> 4],
                      [c |-> 1, f |-> 0, d |-> 2], [c |-> 3, f |-> 0, d |-> 4],
                      [c |-> 1, f |-> 0, d |-> 1]>>
        /\ n_steps_list = <<1, 1, 1, 1>>
        /\ h_list = [i \in 1..4 |-> [c |-> 1, f |-> 0, d |-> 4]]

C18_Witness ==
    /\ GridDone /\ t_span = ScenarioSpan /\ t_eval = ScenarioEval
    /\ max_dt = ScenarioMaxDt /\ Len(h_list) = 4

----------------------------------------------------------------------------
(* Claims about the solvers, checked under Spec *)

RECURSIVE SumTo(_, _)
SumTo(ns, i) == IF i = 0 THEN 0 ELSE ns[i] + SumTo(ns, i - 1)

\* x_n . x_(n-1) . ... . x_1
RECURSIVE RevProduct(_, _)
RevProduct(elems, n) == IF n = 0 THEN <<>> ELSE matmul(elems[n], RevProduct(elems, n - 1))

\* x_1 . x_2 . ... . x_n
RECURSIVE FwdProduct(_, _)
FwdProduct(elems, n) == IF n = 0 THEN <<>> ELSE matmul(FwdProduct(elems, n - 1), elems[n])

SeqReturned ==
    \/ pc \in {"par", "par_setup", "par_scan", "done"}
    \/ pc = "error" /\ err = "ShapeError"
ParReturned == pc = "done"
ParRaised == pc = "error" /\ err = "ShapeError"

\* the propagator of one step of the rule, a function of (generator, t, h) alone
StepPropagator(r, t, h) ==
    IF r = "RK4" THEN RK4_parallel_take_step(POne, t, h)
    ELSE propagator(MagnusOrder(r), t, h)

\* C1: at every grid breakpoint the parallel composer returns the value the
\* sequential integrator returns, namely (P_c . ... . P_1) . y0 for the per-step
\* propagators P_1..P_c up to that breakpoint.
C1_ModeEquivalence ==
    (ParReturned \/ ParRaised) =>
        /\ ParReturned
        /\ \A i \in DOMAIN t_list :
              /\ ys_par[i] = ys[i]
              /\ ys[i] = matmul(RevProduct([j \in DOMAIN all_times |->
                                   StepPropagator(rule, all_times[j], all_h[j])],
                                   t_list_locations[i]), Y0Val(y0))

\* the elements handed to the scan
ScanInput == IF IsSquare(y0) THEN <<Y0Val(y0)>> \o step_propagators ELSE step_propagators

\* C2: the k-th output of the scan is x_k . x_(k-1) . ... . x_0, later steps on
\* the left, and not x_0 . ... . x_k.
C2_ScanMultipliesOnTheLeft ==
    ParReturned =>
        /\ Len(intermediate_props) = Len(ScanInput)
        /\ \A n \in DOMAIN ScanInput :
              /\ intermediate_props[n] = RevProduct(ScanInput, n)
              /\ (n >= 2 /\ ScanInput[1] # <<>>)
                    => intermediate_props[n] # FwdProduct(ScanInput, n)

C2_Witness ==
    ParReturned /\ IsSquare(y0) /\ ~y0.eye /\ Len(intermediate_props) >= 4

\* C6: the parallel composer returns one value per grid breakpoint, in order:
\* y0 first, then for breakpoint i the product of the first n_1 + ... + n_i
\* per-step propagators applied to y0; sub-step results are discarded.
C6_OneValuePerBreakpoint ==
    ParReturned =>
        /\ Len(ys_par) = Len(t_list)
        /\ ys_par[1] = Y0Val(y0)
        /\ \A i \in DOMAIN h_list :
              ys_par[i + 1] = matmul(RevProduct(step_propagators, SumTo(n_steps_list, i)),
                                     Y0Val(y0))

C6_Witness ==
    ParReturned /\ ~IsSquare(y0) /\ Len(t_list) >= 3 /\ Len(all_h) > Len(h_list)

\* C7: the sequential template applies take_step exactly n_i times in interval
\* i with step h_i, each application on the output of the one before, the first
\* on the value stored at breakpoint i; it stores one value per breakpoint, y0
\* first, and calls take_step n_1 + ... + n_m times in total.
C7_SequentialThreading ==
    SeqReturned =>
        /\ Len(ys) = Len(t_list)
        /\ ys[1] = Y0Val(y0)
        /\ Len(calls) = SumTo(n_steps_list, Len(n_steps_list))
        /\ \A i \in DOMAIN h_list : \A j \in 1..n_steps_list[i] :
              LET pos == SumTo(n_steps_list, i - 1) + j
              IN  /\ calls[pos].interval = i
                  /\ calls[pos].h = h_list[i]
                  /\ calls[pos].t = NumAdd(t_list[i], NumTimesInt(h_list[i], j - 1))
                  /\ calls[pos].y_in = IF j = 1 THEN ys[i] ELSE calls[pos - 1].y_out
                  /\ j = n_steps_list[i] => ys[i + 1] = calls[pos].y_out

C7_Witness ==
    SeqReturned /\ Len(h_list) >= 2 /\ \E i \in DOMAIN h_list : n_steps_list[i] >= 2

\* C8: every full step equals the propagator-only result of the same rule
\* applied to the state: step(G, t, y, h) = propagator_only(G, t, h) . y.
C8_StepIsPropagatorTimesState ==
    \A i \in DOMAIN calls :
        /\ ~parallel_take_step_raises(rule, y0)
        /\ calls[i].y_out
             = matmul(parallel_take_step(rule, y0, calls[i].t, calls[i].h), calls[i].y_in)

\* C9: the per-step propagators of the parallel solvers depend on
\* (generator, t_j, h_j) only: a solve with any other y0 computes the same ones.
C9_PropagatorsIndependentOfY0 ==
    (pc \in {"par_scan", "done"} \/ ParRaised) =>
        /\ ~ParRaised
        /\ \A v \in Y0s : \A j \in DOMAIN all_times :
              /\ ~parallel_take_step_raises(rule, v)
              /\ step_propagators[j] = parallel_take_step(rule, v, all_times[j], all_h[j])

\* the evaluation points of ev that lie in span
RestrictEval(ev, span) ==
    LET sel == SelectSeq(ev.pts, LAMBDA p : InSpan(span, <<p>>))
    IN  IF ev.none \/ sel = <<>> THEN NoEval ELSE Eval(sel)

Last(vs) == vs[Len(vs)]

\* C10: with y0 the identity, for every interior breakpoint t1 of the solve over
\* (t0, t2) the final propagator is Propagator(t1 -> t2) . Propagator(t0 -> t1),
\* the factors coming from separate solves with the same rule and max_dt, in
\* both templates; the grid of each part is the matching part of the long grid.
C10_PropagatorComposition ==
    (ParReturned /\ y0.eye) =>
        \A c \in 2..(Len(t_list) - 1) :
            LET first == <<t_span[1], t_list[c]>>
                second == <<t_list[c], t_span[2]>>
                ev1 == RestrictEval(t_eval, first)
                ev2 == RestrictEval(t_eval, second)
                g1 == get_fixed_step_sizes(first, ev1, max_dt)
                g2 == get_fixed_step_sizes(second, ev2, max_dt)
            IN  /\ Last(ys) = matmul(
                      Last(fixed_step_solver_template(rule, second, y0, max_dt, ev2)),
                      Last(fixed_step_solver_template(rule, first, y0, max_dt, ev1)))
                /\ Last(ys_par) = matmul(
                      Last(fixed_step_lmde_solver_parallel_template_jax(
                               rule, second, y0, max_dt, ev2)),
                      Last(fixed_step_lmde_solver_parallel_template_jax(
                               rule, first, y0, max_dt, ev1)))
                /\ g1.n_steps_list \o g2.n_steps_list = n_steps_list
                /\ g1.h_list \o g2.h_list = h_list

C10_Witness ==
    /\ ParReturned
    /\ y0.eye
    /\ rule = "RK4"
    /\ Len(t_list) >= 3
    /\ n_steps_list[Len(n_steps_list)] >= 2

----------------------------------------------------------------------------
(* Claims about errors, checked under Spec *)

\* C11: an expm solver called with a magnus_order outside {1, 2, 3} (0, a
\* negative order, 4, ...) fails with QiskitError in get_exponential_take_step,
\* and one called with 1, 2 or 3 does not.
C11_UnsupportedOrderRaises ==
    (rule # "RK4" /\ pc # "call") =>
        ((magnus_order \notin {1, 2, 3}) <=> (pc = "error" /\ err = "QiskitError"))

C11_Witness == pc = "error" /\ err = "QiskitError" /\ magnus_order = 4

ValidationFailed == pc = "error" /\ err \in {"QiskitError", "InvalidGridError"}

\* C12: when a solve fails on an unsupported Magnus order or a malformed
\* t_eval, take_step and the generator / right-hand side have been called zero
\* times and no trajectory, not even a partial one, exists.
C12_ValidationBeforeStepping ==
    ValidationFailed =>
        /\ calls = <<>> /\ rhs_log = <<>> /\ step_propagators = <<>>
        /\ ys = <<>> /\ ys_par = <<>>
        /\ res_seq = <<>> /\ res_par = <<>>

\* a supported order with a malformed t_eval: the failure comes from the grid
C12_Witness ==
    pc = "error" /\ err = "InvalidGridError" /\ magnus_order = 2 /\ rule = "magnus2"

----------------------------------------------------------------------------
(* Claims about the parallel composer alone, checked under SpecParallel *)

\* y0 is a vector of length other than n, a matrix whose first dimension is
\* not n, or a square k x k matrix with k other than n
NonConformant(v) ==
    \/ Len(v.shape) = 1 /\ v.shape[1] # GenDim
    \/ Len(v.shape) = 2 /\ v.shape[1] # GenDim
    \/ Len(v.shape) = 2 /\ v.shape[1] = v.shape[2] /\ v.shape[1] # GenDim

\* C15: with a y0 that is not conformant with the generator dimension the
\* parallel composer never returns: once the propagators are computed the next
\* step raises, and no trajectory, partial or wrongly shaped, is ever produced.
C15_NonConformantY0Fails ==
    [][NonConformant(y0) =>
          /\ pc' # "done"
          /\ ys_par' = <<>> /\ res_par' = <<>>
          /\ pc = "par_scan" => (pc' = "error" /\ err' = "ShapeError")]_vars

\* the square branch raising for a k x k matrix under a Magnus rule
C15_Witness ==
    /\ pc = "error" /\ err = "ShapeError"
    /\ rule = "magnus2"
    /\ IsSquare(y0) /\ NonConformant(y0)
    /\ Len(step_propagators) >= 2

----------------------------------------------------------------------------
(* Claims about the data-parallel mode, checked under SpecWorkers *)

\* a step writes exactly one slot of the array, a slot not written before
OneSlotWritten(old, new) ==
    /\ DOMAIN new = DOMAIN old
    /\ \E j \in DOMAIN old :
          /\ old[j] = Pending /\ new[j] # Pending
          /\ \A i \in DOMAIN old : i # j => new[i] = old[i]

\* C16: whatever the order in which the workers compute the per-step
\* propagators and the order of the reverse_mul applications inside one level of
\* the scan, levels being separated by barriers, the returned trajectory is the
\* one fixed by the arguments; every step of a worker writes one slot of its
\* own and leaves every other slot as it was.
C16_ScheduleIndependent ==
    /\ [](pc = "done" =>
            /\ step_propagators = [j \in DOMAIN all_times |->
                   parallel_take_step(rule, y0, all_times[j], all_h[j])]
            /\ ys_par = fixed_step_lmde_solver_parallel_template_jax(
                            rule, t_span, y0, max_dt, t_eval)
            /\ res_par = trim_t_results(t_list, ys_par, t_eval)
            /\ \A i \in DOMAIN t_list :
                  ys_par[i] = matmul(RevProduct(step_propagators, t_list_locations[i]),
                                     Y0Val(y0)))
    /\ [][/\ (pc = "w_map" /\ pc' = "w_map")
               => OneSlotWritten(step_propagators, step_propagators')
          /\ (pc = "w_reduce" /\ pc' = "w_reduce" /\ Len(down') = Len(down))
               => /\ OneSlotWritten(down[Len(down)], down'[Len(down)])
                  /\ \A d \in 1..(Len(down) - 1) : down'[d] = down[d]
          /\ (pc = "w_up" /\ pc' = "w_up" /\ lvl' = lvl)
               => OneSlotWritten(up, up') /\ down' = down]_vars

\* a scan of three levels whose lanes were not computed in ascending order
C16_Witness ==
    /\ pc = "done"
    /\ Len(down) >= 3
    /\ Len(all_times) >= 3
    /\ rhs_log[1].call = Len(all_times)

----------------------------------------------------------------------------
(* Claims about a sequential solve and the solve back, checked under           *)
(* SpecSequential                                                             *)

Reverse(xs) == [i \in 1..Len(xs) |-> xs[Len(xs) + 1 - i]]

\* the arguments of the solve back: the span and the evaluation points reversed
BackSpan == <<t_span[2], t_span[1]>>
BackEval == IF t_eval.none THEN NoEval ELSE Eval(Reverse(t_eval.pts))
BackGrid == get_fixed_step_sizes(BackSpan, BackEval, max_dt)

\* the trajectory of the solve back from the last value of the solve just made
BackYs == integrate_intervals(rule, BackGrid, 1, <<Last(ys)>>)

\* the steps of the solve back, in order
BackSteps ==
    flatten_grid(BackGrid, 1, [all_times |-> <<>>, all_h |-> <<>>, locs |-> <<0>>])

\* exp(X) and exp(Z) with Z = -X
InverseExp(x, z) ==
    /\ x.kind = "expm" /\ z.kind = "expm"
    /\ x.order = z.order
    /\ x.h = NumNeg(z.h)
    /\ magnus_terms(x.order, x.t0, x.h)
         = MScale(Rat(Num(-1, 0)), magnus_terms(z.order, z.t0, z.h))

\* the word with every product exp(-X) . exp(X) replaced by the identity
RECURSIVE CancelInverses(_, _)
CancelInverses(done, rest) ==
    IF rest = <<>> THEN done
    ELSE IF done # <<>> /\ InverseExp(done[Len(done)], Head(rest))
         THEN CancelInverses(SubSeq(done, 1, Len(done) - 1), Tail(rest))
         ELSE CancelInverses(Append(done, Head(rest)), Tail(rest))

\* C17: the grid of the solve back is the grid of the solve reversed, with the
\* same step counts and negated step sizes; step number j of the solve back
\* starts where the matching step of the solve ended and has the negated size;
\* for the Magnus rules, cancelling every product exp(Z) . exp(X) whose
\* exponents satisfy Z = -X leaves y0 as the result of the solve back, that
\* is, each exponent of the solve back is the negation of the exponent of the
\* matching step.
C17_BackwardSymmetry ==
    pc = "par" =>
        /\ BackGrid.t_list = Reverse(t_list)
        /\ BackGrid.n_steps_list = Reverse(n_steps_list)
        /\ BackGrid.h_list = Reverse([i \in DOMAIN h_list |-> NumNeg(h_list[i])])
        /\ Len(BackSteps.all_times) = Len(calls)
        /\ \A j \in DOMAIN calls :
              LET fwd == calls[Len(calls) + 1 - j]
              IN  /\ BackSteps.all_times[j] = NumAdd(fwd.t, fwd.h)
                  /\ BackSteps.all_h[j] = NumNeg(fwd.h)
        /\ rule # "RK4" => CancelInverses(<<>>, Last(BackYs)) = Y0Val(y0)

\* a Magnus solve of order 3 over two intervals of different step counts
C17_Witness ==
    /\ pc = "par"
    /\ rule = "magnus3"
    /\ Len(h_list) = 2
    /\ n_steps_list[1] # n_steps_list[2]
    /\ Len(Last(BackYs)) = 2 * Len(calls) + 1

\* the evaluations of rhs_func logged by call number n of take_step
EvalsOfCall(n) ==
    LET Mine(x) == x.mode = "seq" /\ x.call = n
        mine == SelectSeq(rhs_log, Mine)
    IN  [i \in DOMAIN mine |-> mine[i].ev]

\* C19: every RK4 step from (t, y) by h evaluates the right-hand side four
\* times, in order at (t, y), (t + h/2, y + (h/2) k1), (t + h/2, y + (h/2) k2)
\* and (t + h, y + h k3), and returns y + (h/6)(k1 + 2 k2 + 2 k3 + k4), whatever
\* steps were taken before it.  With rhs(t, y) = G(t) y, a = G(t), b = G(t + h/2)
\* and c = G(t + h) the states and the result are written out as polynomials
\* applied to y.
C19_RK4Step ==
    rule = "RK4" =>
        \A n \in DOMAIN calls :
            LET tt == calls[n].t
                hh == calls[n].h
                a == G(tt)
                b == G(NumAdd(tt, NumDivInt(hh, 2)))
                c == G(NumAdd(tt, hh))
                hh2 == NumMul(hh, hh)
                hh3 == NumMul(hh2, hh)
                hh4 == NumMul(hh3, hh)
                s1 == {Mono(<<>>, Num(1, 0))}
                s2 == {Mono(<<>>, Num(1, 0)), Mono(<<a>>, NumMul(Frac(1, 2), hh))}
                s3 == {Mono(<<>>, Num(1, 0)), Mono(<<b>>, NumMul(Frac(1, 2), hh)),
                       Mono(<<b, a>>, NumMul(Frac(1, 4), hh2))}
                s4 == {Mono(<<>>, Num(1, 0)), Mono(<<b>>, hh),
                       Mono(<<b, b>>, NumMul(Frac(1, 2), hh2)),
                       Mono(<<b, b, a>>, NumMul(Frac(1, 4), hh3))}
                out == {Mono(<<>>, Num(1, 0)),
                        Mono(<<a>>, NumMul(Frac(1, 6), hh)),
                        Mono(<<b>>, NumMul(Frac(2, 3), hh)),
                        Mono(<<c>>, NumMul(Frac(1, 6), hh)),
                        Mono(<<b, a>>, NumMul(Frac(1, 6), hh2)),
                        Mono(<<b, b>>, NumMul(Frac(1, 6), hh2)),
                        Mono(<<c, b>>, NumMul(Frac(1, 6), hh2)),
                        Mono(<<b, b, a>>, NumMul(Frac(1, 12), hh3)),
                        Mono(<<c, b, b>>, NumMul(Frac(1, 12), hh3)),
                        Mono(<<c, b, b, a>>, NumMul(Frac(1, 24), hh4))}
            IN  /\ EvalsOfCall(n)
                     = <<[t |-> a.at, y |-> s1], [t |-> b.at, y |-> s2],
                         [t |-> b.at, y |-> s3], [t |-> c.at, y |-> s4]>>
                /\ calls[n].y_out = <<[kind |-> "poly", p |-> out]>> \o calls[n].y_in

\* an RK4 solve over intervals of different step sizes
C19_Witness ==
    /\ pc = "par"
    /\ rule = "RK4"
    /\ Len(calls) >= 2
    /\ Len(rhs_log) = 4 * Len(calls)
    /\ \E i, j \in DOMAIN h_list : h_list[i] # h_list[j]

\* C20: every Magnus step of order 2 from t by h evaluates the generator twice,
\* at t + (1/2 - sqrt(3)/6) h and then at t + (1/2 + sqrt(3)/6) h, and multiplies
\* its input by the exponential of
\*     (h/2) G1 + (h/2) G2 + (sqrt(3)/12) h^2 G2 G1 - (sqrt(3)/12) h^2 G1 G2,
\* the commutator taken with G2 first.
C20_MagnusTwoStep ==
    rule = "magnus2" =>
        \A n \in DOMAIN calls :
            LET tt == calls[n].t
                hh == calls[n].h
                mid == NumAdd(tt, NumDivInt(hh, 2))
                node1 == [a |-> mid, b |-> NumNeg(NumDivInt(hh, 6)), rad |-> 3]
                node2 == [a |-> mid, b |-> NumDivInt(hh, 6), rad |-> 3]
                G1 == G(node1)
                G2 == G(node2)
                half_h == [a |-> NumDivInt(hh, 2), b |-> Num(0, 0), rad |-> 1]
                p2_h2 == [a |-> Num(0, 0), b |-> NumDivInt(NumMul(hh, hh), 12), rad |-> 3]
                exponent ==
                    [w \in {<<G1>>, <<G2>>, <<G2, G1>>, <<G1, G2>>} |->
                        CASE w = <<G1>> -> half_h
                          [] w = <<G2>> -> half_h
                          [] w = <<G2, G1>> -> p2_h2
                          [] w = <<G1, G2>> -> RadNeg(p2_h2)]
            IN  /\ EvalsOfCall(n) = <<[t |-> node1], [t |-> node2]>>
                /\ calls[n].y_out
                     = <<[kind |-> "expm", order |-> 2, t0 |-> tt, h |-> hh]>>
                         \o calls[n].y_in
                /\ magnus_terms(2, tt, hh) = exponent

\* a Magnus solve of order 2 with steps in both intervals of a backward span
C20_Witness ==
    /\ pc = "par"
    /\ rule = "magnus2"
    /\ NumLess(t_span[2], t_span[1])
    /\ Len(h_list) = 2
    /\ Len(rhs_log) = 2 * Len(calls)

----------------------------------------------------------------------------
(* Claims about one step of a rule, checked under SpecStep                    *)

\* C21: a Magnus step of order 3 from t by h evaluates the generator at
\* t + (1/2 - sqrt(15)/10) h, t + h/2 and t + (1/2 + sqrt(15)/10) h, in this
\* order (g1, g2, g3), and multiplies its input by the exponential of
\*     a1 + a3/12 + [-20 a1 - a3 + [a1, a2], a2 + [2 a3 + [a1, a2], a1]/60]/240
\* with a1 = h g2, a2 = (sqrt(15)/3) h (g3 - g1), a3 = (10/3) h (g3 - 2 g2 + g1)
\* and [A, B] = A B - B A; the part of the exponent linear in the samples is
\* the Gauss-Legendre rule (5/18) h g1 + (4/9) h g2 + (5/18) h g3.
C21_MagnusThreeStep ==
    rule = "magnus3" =>
        \A n \in DOMAIN calls :
            LET tt == calls[n].t
                hh == calls[n].h
                mid == NumAdd(tt, NumDivInt(hh, 2))
                node1 == [a |-> mid, b |-> NumNeg(NumDivInt(hh, 10)), rad |-> 15]
                node2 == [a |-> mid, b |-> Num(0, 0), rad |-> 1]
                node3 == [a |-> mid, b |-> NumDivInt(hh, 10), rad |-> 15]
                g1 == GenAt(node1)
                g2 == GenAt(node2)
                g3 == GenAt(node3)
                Br(A, B) == MSub(MMul(A, B), MMul(B, A))
                Over(A, m) == MScale(Rat(Frac(1, m)), A)
                Times(m, A) == MScale(Rat(Num(m, 0)), A)
                a1 == MScale(Rat(hh), g2)
                a2 == MScale([a |-> Num(0, 0), b |-> NumDivInt(hh, 3), rad |-> 15],
                             MSub(g3, g1))
                a3 == MScale(Rat(NumMul(Frac(10, 3), hh)),
                             MAdd(MSub(g3, Times(2, g2)), g1))
                left == MAdd(MSub(Times(-20, a1), a3), Br(a1, a2))
                right == MAdd(a2, Over(Br(MAdd(Times(2, a3), Br(a1, a2)), a1), 60))
                terms == MAdd(MAdd(a1, Over(a3, 12)), Over(Br(left, right), 240))
            IN  /\ EvalsOfCall(n) = <<[t |-> node1], [t |-> node2], [t |-> node3]>>
                /\ calls[n].y_out
                     = <<[kind |-> "expm", order |-> 3, t0 |-> tt, h |-> hh]>>
                         \o calls[n].y_in
                /\ magnus_terms(3, tt, hh) = terms
                /\ MCoef(terms, <<G(node1)>>) = Rat(NumMul(Frac(5, 18), hh))
                /\ MCoef(terms, <<G(node2)>>) = Rat(NumMul(Frac(4, 9), hh))
                /\ MCoef(terms, <<G(node3)>>) = Rat(NumMul(Frac(5, 18), hh))

\* a backward Magnus step of order 3 of a step size that is no whole number
C21_Witness ==
    /\ pc = "step_done"
    /\ rule = "magnus3"
    /\ Len(calls) = 1
    /\ NumLess(calls[1].h, Num(0, 0))
    /\ calls[1].h.d > 1
    /\ Len(rhs_log) = 3

----------------------------------------------------------------------------
(* Claims about diffrax_solver, checked under SpecDiffrax                     *)

HasSaveAt == "saveat" \in DOMAIN call_args.kwargs

\* C22: the call ends in a QiskitError exactly when a saveat keyword and a
\* t_eval are both given, and then diffeqsolve has not been called and nothing
\* is returned; otherwise diffeqsolve is called once, with SaveAt(ts=t_eval) as
\* its saveat when only t_eval is given and with the keyword arguments as they
\* were given when t_eval is None.
C22_ConflictingSavePoints ==
    /\ pc = "error" =>
          /\ err = "QiskitError"
          /\ HasSaveAt /\ ~t_eval.none
          /\ invoked = <<>> /\ result = <<>>
    /\ pc \in {"diffrax_results", "done"} =>
          /\ ~(HasSaveAt /\ ~t_eval.none)
          /\ Len(invoked) = 1
          /\ invoked[1].fn = "diffeqsolve"
          /\ ~t_eval.none =>
                /\ invoked[1].kwargs.saveat = [ts |-> t_eval.pts]
                /\ \A key \in DOMAIN call_args.kwargs :
                      invoked[1].kwargs[key] = call_args.kwargs[key]
          /\ t_eval.none => invoked[1].kwargs = call_args.kwargs

\* a call with both ways of giving the save points has failed
C22_Witness ==
    /\ pc = "error"
    /\ HasSaveAt
    /\ ~t_eval.none
    /\ "max_steps" \in DOMAIN call_args.kwargs

----------------------------------------------------------------------------
(* Claims about HamiltonianModel.__init__, checked under SpecHamiltonian      *)

\* norm(adj - A) is not below 1e-10
NotHermitian(A) == A.dev >= 10

AnyNotHermitian ==
    \/ /\ ~call_args.operators.none
       /\ \E i \in DOMAIN call_args.operators.val :
             NotHermitian(call_args.operators.val[i])
    \/ /\ ~call_args.static_operator.none
       /\ NotHermitian(call_args.static_operator.val)

ModelBuilt == \E i \in DOMAIN invoked : invoked[i].fn = "GeneratorModel.__init__"
HermiticityChecked == \E i \in DOMAIN invoked : invoked[i].fn = "is_hermitian"

\* C24: with validate=True the construction ends in a QiskitError, before
\* GeneratorModel.__init__ is called, when an entry of operators or the
\* static_operator has norm(adj - A) not below 1e-10, and only then; with
\* validate=False is_hermitian is never called and the model is built.
C24_HermitianValidation ==
    /\ pc = "error" =>
          /\ err = "QiskitError"
          /\ call_args.validate /\ AnyNotHermitian
          /\ ~ModelBuilt /\ result = <<>>
    /\ pc \in {"ham_super", "done"} =>
          /\ call_args.validate => ~AnyNotHermitian
          /\ ~call_args.validate => ~HermiticityChecked
    /\ pc = "done" => ModelBuilt /\ result # <<>>

\* a construction has failed on a static_operator exactly at the tolerance
\* after two Hermitian operators were accepted
C24_Witness ==
    /\ pc = "error"
    /\ ~call_args.operators.none
    /\ Len(call_args.operators.val) = 2
    /\ ~call_args.static_operator.none
    /\ call_args.static_operator.val.dev = 10
    /\ Len(invoked) = 3

----------------------------------------------------------------------------
(* Claims about solve_lmde_perturbation, checked under SpecPerturbation       *)

Solvers == {"solve_lmde_dyson", "solve_lmde_dyson_jax",
            "solve_lmde_symmetric_magnus", "solve_lmde_symmetric_magnus_jax"}

SolverInvoked == \E i \in DOMAIN invoked : invoked[i].fn \in Solvers

Finished == pc \in {"error", "done"}

BothUnspecified == call_args.expansion_order.none /\ call_args.expansion_terms.none

MethodUnsupported ==
    call_args.expansion_method \notin {"dyson", "symmetric_dyson", "symmetric_magnus"}

\* C25: a call with expansion_order and expansion_terms both None fails with a
\* QiskitError before anything is evaluated, and a call with an
\* expansion_method other than 'dyson', 'symmetric_dyson' and
\* 'symmetric_magnus' fails with a QiskitError; in both no solver is called and
\* nothing is returned.
C25_PerturbationArgumentErrors ==
    /\ BothUnspecified =>
          /\ pc \in {"pert_call", "error"}
          /\ invoked = <<>> /\ result = <<>>
          /\ pc = "error" => err = "QiskitError"
    /\ MethodUnsupported =>
          /\ pc # "done"
          /\ ~SolverInvoked /\ result = <<>>
          /\ pc = "error" => err = "QiskitError"
    /\ pc = "pert_solve" => ENABLED PerturbationSolve

\* a call with an unsupported method has failed at the final raise, after the
\* perturbations were evaluated once each
C25_Witness ==
    /\ pc = "error"
    /\ call_args.expansion_method = "magnus"
    /\ ~call_args.merged.none
    /\ Len(call_args.merged.val.expansion_terms) >= 3
    /\ Len(invoked) = 3

----------------------------------------------------------------------------
(* Claims about the two branches of the parallel template, checked under Spec *)

\* C26: for a square y0 of the dimension of the generator, the trajectory of
\* the square branch (y0 scanned as the first propagator) is the trajectory the
\* other branch computes from the same propagators: y0 first, then the
\* cumulative propagators of the breakpoints multiplied by y0 from the right;
\* the value at breakpoint i is (P_c . ... . P_1) . y0 with c the number of
\* steps up to it.
C26_BranchesAgree ==
    (pc = "done" /\ y0.shape = <<GenDim, GenDim>>) =>
        /\ ys_par = nonsquare_ys(associative_scan(step_propagators),
                                 t_list_locations, Y0Val(y0))
        /\ \A i \in DOMAIN ys_par :
              ys_par[i] = matmul(RevProduct(step_propagators, t_list_locations[i]),
                                 Y0Val(y0))

\* a solve from a square y0 other than the identity over two intervals and
\* three steps
C26_Witness ==
    /\ pc = "done"
    /\ y0.shape = <<GenDim, GenDim>>
    /\ ~y0.eye
    /\ Len(h_list) = 2
    /\ Len(step_propagators) >= 3

----------------------------------------------------------------------------
(* Claims about fixed_step_solver_template_jax, checked under SpecJax         *)

\* t + h + ... + h with j summands h
RECURSIVE RepeatedAdd(_, _, _)
RepeatedAdd(t, h, j) == IF j = 0 THEN t ELSE NumAdd(RepeatedAdd(t, h, j - 1), h)

\* the (time, step size) pairs at which the loops of fixed_step_solver_template
\* call take_step on the grid, in order
RECURSIVE TemplateSteps(_)
TemplateSteps(i) ==
    IF i = 0 THEN <<>>
    ELSE TemplateSteps(i - 1)
           \o [j \in 1..n_steps_list[i] |->
                  [t |-> RepeatedAdd(t_list[i], h_list[i], j - 1), h |-> h_list[i]]]

MostSteps == CHOOSE m \in {n_steps_list[i] : i \in DOMAIN n_steps_list} :
                 \A i \in DOMAIN n_steps_list : n_steps_list[i] <= m

\* C27: in every interval the scan makes as many iterations as the longest
\* interval has steps, and takes a step in exactly the first n_i of them; the
\* steps are taken at the (time, step size) pairs of fixed_step_solver_template
\* in its order, and the trajectory is that of fixed_step_solver_template, with
\* y0 first.
C27_JaxTemplateRefines ==
    pc = "done" =>
        /\ Len(invoked) = MostSteps * Len(h_list)
        /\ \A n \in DOMAIN invoked :
              LET i == ((n - 1) \div MostSteps) + 1
                  j == (n - 1) % MostSteps
              IN  /\ invoked[n].fn = "cond"
                  /\ invoked[n].interval = i
                  /\ invoked[n].step = j
                  /\ invoked[n].pred = (j < n_steps_list[i])
        /\ [n \in DOMAIN calls |-> [t |-> calls[n].t, h |-> calls[n].h]]
              = TemplateSteps(Len(h_list))
        /\ ys = fixed_step_solver_template(rule, t_span, y0, max_dt, t_eval)
        /\ ys[1] = Y0Val(y0)
        /\ res_seq = trim_t_results(t_list, ys, t_eval)

\* a solve over two intervals of which the first has fewer steps than the
\* second, so that iterations of the first interval take no step
C27_Witness ==
    /\ pc = "done"
    /\ Len(h_list) = 2
    /\ n_steps_list[1] < n_steps_list[2]
    /\ Len(calls) < Len(invoked)

SetUpDone == pc \in {"par_scan", "done"} \/ (pc = "error" /\ err = "ShapeError")

\* C28: when the set-up loop of the parallel template has run, all_times and
\* all_h have length N = n_1 + ... + n_m and hold, interval after interval,
\* t_i + j h_i and h_i for j = 0..n_i - 1; these are the (time, step size)
\* arguments of the take_step calls the sequential template has made on the same
\* grid, in the same order; the times move in the direction of the span, and the
\* last step of interval i ends at t_(i+1).
C28_FlattenedSteps ==
    SetUpDone =>
        /\ Len(all_times) = SumTo(n_steps_list, Len(n_steps_list))
        /\ Len(all_h) = Len(all_times)
        /\ \A i \in DOMAIN h_list :
              /\ \A j \in 0..(n_steps_list[i] - 1) :
                    LET n == SumTo(n_steps_list, i - 1) + j + 1
                    IN  /\ all_times[n] = NumAdd(t_list[i], NumTimesInt(h_list[i], j))
                        /\ all_h[n] = h_list[i]
              /\ NumAdd(all_times[SumTo(n_steps_list, i)], h_list[i]) = t_list[i + 1]
        /\ Len(calls) = Len(all_times)
        /\ \A n \in DOMAIN calls :
              calls[n].t = all_times[n] /\ calls[n].h = all_h[n]
        /\ \A n \in 1..(Len(all_times) - 1) :
              IF NumLess(t_span[1], t_span[2])
              THEN NumLess(all_times[n], all_times[n + 1])
              ELSE NumLess(all_times[n + 1], all_times[n])

\* a backward grid of two intervals with different step counts, flattened
C28_Witness ==
    /\ pc = "par_scan"
    /\ NumLess(t_span[2], t_span[1])
    /\ Len(h_list) = 2
    /\ n_steps_list[1] # n_steps_list[2]
    /\ Len(all_times) >= 3

\* the generator samples a matrix expression is made of
SamplesOf(A) == UNION {{w[i] : i \in 1..Len(w)} : w \in DOMAIN A}

\* the sum of two numbers over the least common denominator, and of two
\* radical numbers likewise
NumPlus(a, b) ==
    LET g == GCD(a.d, b.d)
        ma == b.d \div g
        mb == a.d \div g
    IN  Norm(a.c * ma + b.c * mb, a.f * ma + b.f * mb, a.d * ma)
RadPlus(x, z) == Rad(NumPlus(x.a, z.a), NumPlus(x.b, z.b), RadOf(x, z))

\* the sum of the coefficients of the words of n samples that begin with prefix
RECURSIVE CoefSum(_, _, _, _)
CoefSum(A, samples, prefix, n) ==
    IF Len(prefix) = n THEN MCoef(A, prefix)
    ELSE IF samples = {} THEN Rat(Num(0, 0))
    ELSE LET g == CHOOSE x \in samples : TRUE
         IN  RadPlus(CoefSum(A, SamplesOf(A), Append(prefix, g), n),
                    CoefSum(A, samples \ {g}, prefix, n))

\* a matrix expression evaluated at a generator that returns the same matrix G
\* at every time: a word of n samples becomes G^n, so the value is given by
\* the coefficient of each power of G that does not vanish
AtConstant(A) ==
    LET coef == [n \in {Len(w) : w \in DOMAIN A} |-> CoefSum(A, SamplesOf(A), <<>>, n)]
    IN  [n \in {m \in DOMAIN coef : coef[m] # Rat(Num(0, 0))} |-> coef[n]]

\* C29: at a generator that returns the same matrix G at every time, the
\* exponent of the Magnus step from t by h is h G for the orders 1, 2 and 3
\* alike (while for a generator that varies the three exponents differ), so the
\* step of the rule in use multiplies by the same exponential whatever its
\* order.
C29_ConstantGeneratorOrders ==
    (pc = "step_done" /\ rule # "RK4") =>
        LET tt == calls[1].t
            hh == calls[1].h
            hG == [n \in {1} |-> Rat(hh)]
        IN  /\ calls[1].y_out[1] = [kind |-> "expm", order |-> magnus_order,
                                    t0 |-> tt, h |-> hh]
            /\ AtConstant(magnus_terms(magnus_order, tt, hh)) = hG
            /\ \A o \in 1..3 : AtConstant(magnus_terms(o, tt, hh)) = hG
            /\ LET nodes == magnus_nodes(3, tt, hh)
                   diff2 == MAdd(MSub(GenAt(nodes[3]), MScale(Rat(Num(2, 0)), GenAt(nodes[2]))),
                                 GenAt(nodes[1]))
               IN  /\ DOMAIN diff2 # {}
                   /\ DOMAIN AtConstant(diff2) = {}
                   /\ DOMAIN AtConstant(matrix_commutator(GenAt(nodes[1]), GenAt(nodes[3]))) = {}
            /\ magnus_terms(1, tt, hh) # magnus_terms(2, tt, hh)
            /\ magnus_terms(2, tt, hh) # magnus_terms(3, tt, hh)

\* a Magnus step of order 3 of a step size that is no whole number
C29_Witness ==
    /\ pc = "step_done"
    /\ rule = "magnus3"
    /\ calls[1].h.d > 1
    /\ Len(calls[1].y_out) = 2

\* C30: for valid arguments the grid of the reversed span with the reversed
\* evaluation points is the grid reversed: the breakpoints in reverse order,
\* the same step counts in reverse order, and the step sizes negated in
\* reverse order; the reversed arguments are valid as well.
C30_GridReversal ==
    GridDone =>
        LET back == get_fixed_step_sizes(BackSpan, BackEval, max_dt)
            m == Len(h_list)
        IN  /\ ValidTEval(BackSpan, BackEval)
            /\ back.t_list = Reverse(t_list)
            /\ Len(back.n_steps_list) = m
            /\ Len(back.h_list) = m
            /\ \A i \in 1..m :
                 /\ back.n_steps_list[i] = n_steps_list[m + 1 - i]
                 /\ back.h_list[i] = NumNeg(h_list[m + 1 - i])

\* a grid of intervals with different step counts, one of them a count that
\* the correction loop incremented
C30_Witness ==
    /\ GridDone
    /\ ~t_eval.none
    /\ Len(h_list) >= 2
    /\ n_steps_list[1] # n_steps_list[Len(n_steps_list)]
    /\ \E i \in DOMAIN n_steps_list :
         /\ TruncSteps(delta_t_list[i], max_dt) > 0
         /\ n_steps_list[i] > TruncSteps(delta_t_list[i], max_dt)

====
